---- MODULE Spec2Model ----
(***************************************************************************)
(* Chromatic PSF fitting core of Spectractor (spectractor/extractor/psf.py)*)
(* as a state machine.  Real numbers are exact rationals <<n, d>> in       *)
(* lowest terms with d > 0; <<1, 0>> and <<-1, 0>> are +inf and -inf and   *)
(* <<0, 0>> is NaN, with numpy's comparison rules (every comparison with   *)
(* NaN is false).  Arrays are 1-indexed sequences: pixel column x of the   *)
(* source is index x + 1 here.                                             *)
(***************************************************************************)
EXTENDS Integers, Sequences, FiniteSets, TLC

VARIABLES Nx, Ny, deg, saturation, max_half_width, bounds_hard, bounds_soft,
          poly_params, profile_params, ret, w

vars == <<Nx, Ny, deg, saturation, max_half_width, bounds_hard, bounds_soft,
          poly_params, profile_params, ret, w>>

cpsf_vars == <<Nx, Ny, deg, saturation>>
psf_vars == <<max_half_width, bounds_hard, bounds_soft>>

----------------------------------------------------------------------------
(* Exact rational arithmetic standing for numpy float64 arithmetic.        *)

(* Bind evaluates e once and hands the value to F, the way a Python local  *)
(* variable holds a computed array; Bind2 does so for two operands.  The   *)
(* arithmetic below binds its operands before it reads their parts.        *)
Bind(e, F(_)) == CHOOSE r \in {F(v) : v \in {e}} : TRUE

Bind2(e1, e2, F(_, _)) == CHOOSE r \in {F(u, v) : u \in {e1}, v \in {e2}} : TRUE

Abs(n) == IF n < 0 THEN -n ELSE n

Sign(n) == IF n < 0 THEN -1 ELSE IF n > 0 THEN 1 ELSE 0

RECURSIVE GCD(_, _)
GCD(a, b) == IF b = 0 THEN a ELSE GCD(b, a % b)

Norm(n_, d_) ==
    Bind2(n_, d_, LAMBDA n, d :
        IF d = 0 THEN <<Sign(n), 0>>
        ELSE LET s == IF d < 0 THEN -1 ELSE 1
             IN  Bind(GCD(Abs(n), Abs(d)), LAMBDA g :
                     <<(s * n) \div g, (s * d) \div g>>))

R(n) == <<n, 1>>
Frac(n, d) == Norm(n, d)
Inf == <<1, 0>>
NegInf == <<-1, 0>>
NaN == <<0, 0>>
Zero == R(0)
One == R(1)

IsNaN(a_) == Bind(a_, LAMBDA a : a[1] = 0 /\ a[2] = 0)
IsFinite(a) == a[2] > 0

(* Sums and products reduce by common factors before multiplying, to keep  *)
(* the intermediate integers small.                                        *)
RAdd(a_, b_) ==
    Bind2(a_, b_, LAMBDA a, b :
        IF a[2] = 0 /\ b[2] = 0
        THEN (IF a[1] = b[1] THEN a ELSE NaN)
        ELSE IF a[2] = 0 \/ b[2] = 0
        THEN Norm(a[1] * b[2] + b[1] * a[2], 0)
        ELSE Bind(GCD(a[2], b[2]), LAMBDA g :
                 Norm(a[1] * (b[2] \div g) + b[1] * (a[2] \div g),
                      (a[2] \div g) * b[2])))

RNeg(a_) == Bind(a_, LAMBDA a : <<-a[1], a[2]>>)

RSub(a, b) == RAdd(a, RNeg(b))

RMul(a_, b_) ==
    Bind2(a_, b_, LAMBDA a, b :
        IF a[2] = 0 \/ b[2] = 0 THEN Norm(a[1] * b[1], 0)
        ELSE Bind2(GCD(Abs(a[1]), b[2]), GCD(Abs(b[1]), a[2]), LAMBDA g1, g2 :
                 <<(a[1] \div g1) * (b[1] \div g2),
                   (a[2] \div g2) * (b[2] \div g1)>>))

(* numpy division: x/0 is +-inf, 0/0 is NaN.                               *)
RDiv(a_, b_) ==
    Bind2(a_, b_, LAMBDA a, b :
        IF IsNaN(a) \/ IsNaN(b) THEN NaN
        ELSE IF b[2] = 0 THEN (IF a[2] = 0 THEN NaN ELSE Zero)
        ELSE IF b[1] = 0 THEN Norm(a[1], 0)
        ELSE RMul(a, IF b[1] < 0 THEN <<-b[2], -b[1]>> ELSE <<b[2], b[1]>>))

RLt(a_, b_) ==
    Bind2(a_, b_, LAMBDA a, b :
        /\ ~IsNaN(a) /\ ~IsNaN(b)
        /\ IF a[2] = 0 /\ b[2] = 0 THEN a[1] < b[1]
           ELSE IF a[2] = 0 \/ b[2] = 0 THEN a[1] * b[2] < b[1] * a[2]
           ELSE Bind(GCD(a[2], b[2]), LAMBDA g :
                    a[1] * (b[2] \div g) < b[1] * (a[2] \div g)))

RLe(a_, b_) ==
    Bind2(a_, b_, LAMBDA a, b :
        /\ ~IsNaN(a) /\ ~IsNaN(b)
        /\ IF a[2] = 0 /\ b[2] = 0 THEN a[1] <= b[1]
           ELSE IF a[2] = 0 \/ b[2] = 0 THEN a[1] * b[2] <= b[1] * a[2]
           ELSE Bind(GCD(a[2], b[2]), LAMBDA g :
                    a[1] * (b[2] \div g) <= b[1] * (a[2] \div g)))

RGt(a, b) == RLt(b, a)
RGe(a, b) == RLe(b, a)
RAbs(a_) == Bind(a_, LAMBDA a : <<Abs(a[1]), a[2]>>)

(* Builds the array f once, as numpy does, instead of on every access.     *)
Array(f_) == Bind(f_, LAMBDA f : IF f = f THEN f ELSE f)

RECURSIVE RSumFrom(_, _)
RSumFrom(s, i) == IF i > Len(s) THEN Zero ELSE RAdd(s[i], RSumFrom(s, i + 1))

RSum(s_) == Bind(Array(s_), LAMBDA s : RSumFrom(s, 1))

RECURSIVE RMinFrom(_, _)
RMinFrom(s, i) ==
    IF i = Len(s) THEN s[i]
    ELSE Bind(RMinFrom(s, i + 1), LAMBDA m : IF RLt(s[i], m) THEN s[i] ELSE m)

RMin(s_) == Bind(Array(s_), LAMBDA s : RMinFrom(s, 1))

(* Python slice s[a:b] of a 1-indexed sequence s, a and b being 0-based.   *)
Slice(s_, a, b) ==
    Bind(s_, LAMBDA s :
        LET lo == IF a > Len(s) THEN Len(s) ELSE a
            hi == IF b > Len(s) THEN Len(s) ELSE b
        IN  IF hi <= lo THEN << >> ELSE SubSeq(s, lo + 1, hi))

Const(n, v_) == Bind(v_, LAMBDA v : Array([i \in 1..n |-> v]))

----------------------------------------------------------------------------
(* MoffatGauss parameters and bounds.                                      *)

param_names == <<"amplitude", "x_mean", "y_mean", "gamma", "alpha",
                 "eta_gauss", "stddev", "saturation">>

NParams == Len(param_names)

(* MoffatGauss.__init__: bounds_hard and bounds_soft hold the same pairs.  *)
InitBounds ==
    << <<Zero, Inf>>, <<NegInf, Inf>>, <<NegInf, Inf>>, <<Frac(1, 10), Inf>>,
       <<Frac(11, 10), R(10)>>, <<R(-1), Zero>>, <<Frac(1, 10), Inf>>,
       <<Zero, Inf>> >>

(* MoffatGauss.apply_max_width_to_bounds: the pairs for half width h.      *)
WidthBounds(h) ==
    << <<Zero, Inf>>, <<NegInf, Inf>>, <<Zero, RMul(R(2), h)>>,
       <<Frac(1, 10), h>>, <<Frac(11, 10), R(10)>>, <<R(-1), Zero>>,
       <<Frac(1, 10), h>>, <<Zero, Inf>> >>

(* ChromaticPSF.set_polynomial_degrees: degree of each parameter.          *)
degrees(d, name) == IF name = "saturation" THEN 0 ELSE d

----------------------------------------------------------------------------
(* Legendre polynomials on the pixel grid.                                 *)

(* np.linspace(-1, 1, n)[i], i = 0..n-1.                                    *)
linspace(n, i) == IF n = 1 THEN R(-1) ELSE Frac(2 * i - (n - 1), n - 1)

RECURSIVE LegP(_, _)
LegP(k, x) ==
    IF k = 0 THEN One
    ELSE IF k = 1 THEN x
    ELSE RDiv(RSub(RMul(R(2 * k - 1), RMul(x, LegP(k - 1, x))),
                   RMul(R(k - 1), LegP(k - 2, x))), R(k))

(* np.polynomial.legendre.legval(x, c) for a non-empty coefficient list.   *)
RECURSIVE LegSum(_, _, _)
LegSum(x, c, k) ==
    IF k > Len(c) THEN Zero
    ELSE RAdd(RMul(c[k], LegP(k - 1, x)), LegSum(x, c, k + 1))

legval(x_, c_) == Bind2(x_, c_, LAMBDA x, c : LegSum(x, c, 1))

----------------------------------------------------------------------------
(* Profile/polynomial transform of ChromaticPSF.                           *)

(* Offset of the coefficient block of parameter k (k >= 2) inside the      *)
(* shape part: the running `shift` of from_poly_params_to_profile_params.  *)
ShiftOf(d, k) ==
    LET RECURSIVE Acc(_)
        Acc(j) == IF j >= k THEN 0 ELSE degrees(d, param_names[j]) + 1 + Acc(j + 1)
    IN  Acc(2)

(* Number of shape coefficients: every non-amplitude block.                *)
NShape(d) == ShiftOf(d, NParams + 1)

CoefBlockAfterAmplitudes(q, n, d, k) ==
    LET sh == ShiftOf(d, k)
    IN  Slice(q, n + sh, n + sh + degrees(d, param_names[k]) + 1)

(* The coefficients the code reads for parameter k: from offset `length`   *)
(* when len(poly_params) > length, from offset 0 otherwise.                *)
CoefBlock(q, n, d, k) ==
    LET base == IF Len(q) > n THEN n ELSE 0
        sh == ShiftOf(d, k)
    IN  Slice(q, base + sh, base + sh + degrees(d, param_names[k]) + 1)

(* legval on an empty coefficient array indexes c[-2]: IndexError.         *)
ToProfileRaises(q, n, d) ==
    /\ Len(q) > n
    /\ \E k \in 2..NParams : CoefBlock(q, n, d, k) = << >>

(* One entry of the table before clipping.                                 *)
RawEntry(q, n, d, x, k) ==
    IF k = 1
    THEN (IF Len(q) > n THEN q[x] ELSE One)
    ELSE LET p == CoefBlock(q, n, d, k)
         IN  IF Len(p) > 0 THEN legval(linspace(n, x - 1), p) ELSE Zero

(* Clipping that forgets the upper bound.                                  *)
ClipHardNoUpper(v_, b) == Bind(v_, LAMBDA v : IF RLe(v, b[1]) THEN b[1] ELSE v)

(* apply_bounds: v <= min is set to min, then v > max is set to max.       *)
ClipHard(v_, b) ==
    Bind(v_, LAMBDA v :
        LET v1 == IF RLe(v, b[1]) THEN b[1] ELSE v
        IN  IF RGt(v1, b[2]) THEN b[2] ELSE v1)

(* ChromaticPSF.from_poly_params_to_profile_params.                        *)
from_poly_params_to_profile_params(q_, n, d, apply_bounds, bh_) ==
    Bind2(q_, bh_, LAMBDA q, bh :
        Array([x \in 1..n |-> [k \in 1..NParams |->
            IF apply_bounds THEN ClipHard(RawEntry(q, n, d, x, k), bh[k])
            ELSE RawEntry(q, n, d, x, k)]]))

(* Determinant of a square matrix of rationals (Laplace, first row).       *)
RECURSIVE Det(_)
Det(m_) ==
    Bind(Array(m_), LAMBDA m :
        IF Len(m) = 1 THEN m[1][1]
        ELSE LET n == Len(m)
                 Minor(j) == Array([r \in 1..(n - 1) |-> [c \in 1..(n - 1) |->
                                  m[r + 1][IF c < j THEN c ELSE c + 1]]])
                 Term(j) == RMul(R(IF j % 2 = 1 THEN 1 ELSE -1),
                                 RMul(m[1][j], Det(Minor(j))))
             IN  RSum(Array([j \in 1..n |-> Term(j)])))

(* legvander(pixels, d): row a holds P_(a-1) on np.linspace(-1, 1, n).     *)
legvander(n, d) ==
    Array([a \in 1..(d + 1) |-> [i \in 1..n |-> LegP(a - 1, linspace(n, i - 1))]])

(* Gram matrix and right-hand side of the weighted Legendre fit: legfit    *)
(* multiplies both sides by w, so the normal equations carry w^2.          *)
LegGram(n, d, wt) ==
    LET V == legvander(n, d)
        W2 == Array([i \in 1..n |-> RMul(wt[i], wt[i])])
    IN  Array([a \in 1..(d + 1) |-> [b \in 1..(d + 1) |->
            RSum([i \in 1..n |-> RMul(W2[i], RMul(V[a][i], V[b][i]))])]])

(* Right-hand side weighted by w instead of w^2.                           *)
LegRhsUnsquared(n, d, wt, y) ==
    LET V == legvander(n, d)
    IN  Array([a \in 1..(d + 1) |->
            RSum([i \in 1..n |-> RMul(wt[i], RMul(V[a][i], y[i]))])])

LegRhs(n, d, wt, y) ==
    LET V == legvander(n, d)
    IN  Array([a \in 1..(d + 1) |->
            RSum([i \in 1..n |-> RMul(RMul(wt[i], wt[i]), RMul(V[a][i], y[i]))])])

(* The fit is determined when the Gram matrix is regular; with all-zero    *)
(* weights lstsq returns its minimum-norm solution, the zero vector.       *)
FullRank(n, d, wt) == Det(LegGram(n, d, wt)) # Zero
AllZero(wt) == \A i \in 1..Len(wt) : wt[i] = Zero

(* A fit that takes the Legendre basis for orthogonal on the weighted grid *)
(* and keeps only the diagonal of the Gram matrix.                         *)
legfitOrthogonal(n, y, d, wt) ==
    LET G == LegGram(n, d, wt)
        b == LegRhs(n, d, wt, y)
    IN  Array([k \in 1..(d + 1) |-> RDiv(b[k], G[k][k])])

(* np.polynomial.legendre.legfit(pixels, y, deg=d, w=wt): least squares    *)
(* solved exactly (Cramer).                                                *)
legfit(n, y, d, wt) ==
    LET G == LegGram(n, d, wt)
        b == LegRhs(n, d, wt, y)
        D == Det(G)
        Repl(k) == Array([r \in 1..(d + 1) |-> [c \in 1..(d + 1) |->
                        IF c = k THEN b[r] ELSE G[r][c]]])
    IN  IF D = Zero THEN Const(d + 1, Zero)
        ELSE Array([k \in 1..(d + 1) |-> RDiv(Det(Repl(k)), D)])

Column(P, k) == Array([x \in 1..Len(P) |-> P[x][k]])

RECURSIVE ShapeFits(_, _, _)
ShapeFits(P, d, k) ==
    IF k > NParams THEN << >>
    ELSE legfit(Len(P), Column(P, k), degrees(d, param_names[k]), Column(P, 1))
         \o ShapeFits(P, d, k + 1)

(* ChromaticPSF.from_profile_params_to_poly_params: raw amplitudes, then   *)
(* one amplitude-weighted Legendre fit per shape parameter.                *)
from_profile_params_to_poly_params(P, d) == Column(P, 1) \o ShapeFits(P, d, 2)

----------------------------------------------------------------------------
(* Bounds of the model and the input sets the calls are drawn from.        *)

MaxNx == 3
MaxDeg == 1
MaxHalfWidth == 2
MaxWideNx == 7

Saturations == {R(8)}

(* ChromaticPSF.__init__: n_poly_params starts at len(table) and adds      *)
(* degrees[name] + 1 for every name of psf.param_names.                    *)
n_poly_params(n, d) ==
    LET RECURSIVE Acc(_)
        Acc(k) == IF k > NParams THEN 0
                  ELSE degrees(d, param_names[k]) + 1 + Acc(k + 1)
    IN  n + Acc(1)

(* ChromaticPSF.__init__: poly_params_labels, one label per amplitude and  *)
(* one per coefficient of every other parameter.                           *)
poly_params_labels(n, d) ==
    LET RECURSIVE Labels(_)
        Labels(k) ==
            IF k > NParams THEN << >>
            ELSE [j \in 1..(degrees(d, param_names[k]) + 1) |-> <<param_names[k], j - 1>>]
                 \o Labels(k + 1)
    IN  [x \in 1..n |-> <<param_names[1], x - 1>>] \o Labels(2)

NoCall == [op |-> "none", q |-> << >>, P |-> << >>, apply_bounds |-> FALSE, err |-> FALSE]

NoWorkspace == [kind |-> "none"]

(* State after ChromaticPSF1D(Nx=n, Ny=ny, deg=d, saturation=sat): a fresh *)
(* MoffatGauss, zero profile table and zero poly_params.                   *)
Constructed(n, ny, d, sat) ==
    /\ Nx = n /\ Ny = ny /\ deg = d /\ saturation = sat
    /\ max_half_width = Inf
    /\ bounds_hard = InitBounds /\ bounds_soft = InitBounds
    /\ poly_params = Const(n_poly_params(n, d), Zero)
    /\ profile_params = Const(n, Const(NParams, Zero))
    /\ ret = NoCall
    /\ w = NoWorkspace

(* Leading coefficient of each shape block of the reference vector: a      *)
(* focused PSF inside every bound, as generate_test_poly_params builds.    *)
BaseCoef(k, sat) ==
    CASE k = 2 -> Zero
      [] k = 3 -> One
      [] k = 4 -> One
      [] k = 5 -> R(2)
      [] k = 6 -> Frac(-2, 5)
      [] k = 7 -> One
      [] k = 8 -> sat

BaseBlock(d, k, sat) ==
    <<BaseCoef(k, sat)>> \o Const(degrees(d, param_names[k]), Zero)

RECURSIVE ShapeWith(_, _, _, _, _)
ShapeWith(d, sat, kk, blk, k) ==
    IF k > NParams THEN << >>
    ELSE (IF k = kk THEN blk ELSE BaseBlock(d, k, sat)) \o ShapeWith(d, sat, kk, blk, k + 1)

BaseShape(d, sat) == ShapeWith(d, sat, 0, << >>, 2)

(* Amplitudes growing with the column from a zero first column, as in      *)
(* generate_test_poly_params.                                              *)
BaseAmp(n) == Array([x \in 1..n |-> R(x - 1)])

AmpVals == {R(-1), Zero, R(2)}
CoefVals == {R(-12), Frac(1, 2), R(3)}

(* Full-length vectors: any amplitude block on the reference shape, and    *)
(* the reference amplitudes with one coefficient block replaced.           *)
PolyInputs(n, d, sat) ==
    {amp \o BaseShape(d, sat) : amp \in [1..n -> AmpVals]}
    \cup UNION {{BaseAmp(n) \o ShapeWith(d, sat, k, blk, 2) :
                    blk \in [1..(degrees(d, param_names[k]) + 1) -> CoefVals]} :
                k \in 2..NParams}

(* Vectors without amplitude block: the reference shape with one           *)
(* coefficient block replaced.                                             *)
ShapeOnlyInputs(d, sat) ==
    UNION {{ShapeWith(d, sat, k, blk, 2) :
               blk \in [1..(degrees(d, param_names[k]) + 1) -> CoefVals]} :
           k \in 2..NParams}

(* Admissible values of a table column: inside the construction bounds.    *)
ColVals(k) ==
    CASE k = 1 -> {Zero, One, R(2)}
      [] k = 6 -> {R(-1), Frac(-1, 2)}
      [] OTHER -> {R(2), R(3)}

BaseProfile(n, sat) == [x \in 1..n |-> [k \in 1..NParams |->
                           IF k = 1 THEN R(x) ELSE BaseCoef(k, sat)]]

(* Profile tables with one column replaced; the weights (amplitudes) are   *)
(* all zero or make the fit of full rank (other rank-deficient fits have   *)
(* irrational minimum-norm solutions and are left out).                    *)
ProfileInputs(n, d, sat) ==
    {P \in UNION {{[x \in 1..n |-> [j \in 1..NParams |->
                        IF j = k THEN col[x] ELSE BaseProfile(n, sat)[x][j]]] :
                     col \in [1..n -> ColVals(k)]} : k \in 1..NParams} :
        AllZero(Column(P, 1)) \/ FullRank(n, d, Column(P, 1))}

----------------------------------------------------------------------------
(* ChromaticPSF.check_bounds.                                              *)

(* np.isclose(m, 0) with the default tolerances: |m| <= atol = 1e-8.       *)
IsCloseAtolInv == 100000000

isclose0(m_) ==
    Bind(m_, LAMBDA m :
        IsFinite(m) /\ (m[1] = 0 \/ (m[2] \div Abs(m[1])) >= IsCloseAtolInv))

(* np.mean(p).                                                             *)
mean(p_) == Bind(p_, LAMBDA p : RDiv(RSum(p), R(Len(p))))

(* np.sum(profile_params[p < -noise_level, k]).                            *)
SumBelow(p_, lo_) ==
    Bind2(p_, lo_, LAMBDA p, lo :
        RSum([x \in 1..Len(p) |-> IF RLt(p[x], lo) THEN p[x] ELSE Zero]))

(* np.sum(profile_params[p > hi, k] - hi).                                 *)
ExcessAbove(p_, hi_) ==
    Bind2(p_, hi_, LAMBDA p, hi :
        RSum([x \in 1..Len(p) |-> IF RGt(p[x], hi) THEN RSub(p[x], hi) ELSE Zero]))

(* np.sum(lo - profile_params[p < lo, k]).                                 *)
ExcessBelow(p_, lo_) ==
    Bind2(p_, lo_, LAMBDA p, lo :
        RSum([x \in 1..Len(p) |-> IF RLt(p[x], lo) THEN RSub(lo, p[x]) ELSE Zero]))

(* if not np.isclose(np.mean(p), 0): penalty /= np.abs(np.mean(p)).        *)
Rescale(penalty_, excess, p) ==
    Bind2(RAdd(penalty_, excess), mean(p), LAMBDA penalty, m :
        IF isclose0(m) THEN penalty ELSE RDiv(penalty, RAbs(m)))

CheckSideUpperOnly(acc_, p_, bound_, name, side) ==
    Bind2(acc_, p_, LAMBDA acc, p : Bind(bound_, LAMBDA bound :
        IF side = "upper" /\ \E x \in 1..Len(p) : RGt(p[x], bound)
        THEN [in_bounds |-> FALSE,
              penalty |-> Rescale(acc.penalty, ExcessAbove(p, bound), p),
              outbound_parameter_name |-> Append(acc.outbound_parameter_name, name)]
        ELSE acc))

(* One soft bound of one parameter: side is "upper" or "lower".            *)
CheckSide(acc_, p_, bound_, name, side) ==
    Bind2(acc_, p_, LAMBDA acc, p : Bind(bound_, LAMBDA bound :
        IF \E x \in 1..Len(p) :
               IF side = "upper" THEN RGt(p[x], bound) ELSE RLt(p[x], bound)
        THEN [in_bounds |-> FALSE,
              penalty |-> Rescale(acc.penalty,
                                  IF side = "upper" THEN ExcessAbove(p, bound)
                                  ELSE ExcessBelow(p, bound), p),
              outbound_parameter_name |-> Append(acc.outbound_parameter_name, name)]
        ELSE acc))

(* The body of the loop over param_names for parameter k.                  *)
CheckParam(acc_, P, k, noise_level, bs) ==
    Bind2(acc_, Column(P, k), LAMBDA acc, p :
        IF param_names[k] = "amplitude"
        THEN IF \E x \in 1..Len(p) : RLt(p[x], RNeg(noise_level))
             THEN [in_bounds |-> FALSE,
                   penalty |-> RAdd(acc.penalty, RAbs(SumBelow(p, RNeg(noise_level)))),
                   outbound_parameter_name |->
                       Append(acc.outbound_parameter_name, param_names[k])]
             ELSE acc
        ELSE IF param_names[k] = "saturation" THEN acc
        ELSE CheckSide(CheckSide(acc, p, bs[k][2], param_names[k], "upper"),
                       p, bs[k][1], param_names[k], "lower"))

RECURSIVE CheckFrom(_, _, _, _, _)
CheckFrom(acc_, P, k, noise_level, bs) ==
    IF k > NParams THEN acc_
    ELSE CheckFrom(CheckParam(acc_, P, k, noise_level, bs), P, k + 1, noise_level, bs)

(* check_bounds(poly_params, noise_level) of a chromatic PSF of n columns, *)
(* ny rows and degree d under the soft bounds bs: the expansion is not     *)
(* clipped; outbound_parameter_name is the sequence of the names appended. *)
check_bounds(q, n, ny, d, noise_level, bs_) ==
    Bind2(from_poly_params_to_profile_params(q, n, d, FALSE, bs_), bs_, LAMBDA P, bs :
        Bind(CheckFrom([in_bounds |-> TRUE, penalty |-> Zero,
                        outbound_parameter_name |-> << >>], P, 1, noise_level, bs),
             LAMBDA acc : [acc EXCEPT !.penalty = RMul(@, R(n * ny))]))

----------------------------------------------------------------------------
(* Operations of the transform component.                                  *)

(* MoffatGauss.apply_max_width_to_bounds(max_half_width=h).                *)
apply_max_width_to_bounds(h) ==
    /\ max_half_width' = h
    /\ bounds_hard' = WidthBounds(h)
    /\ bounds_soft' = WidthBounds(h)

ApplyMaxWidth ==
    /\ ret.op = "none"
    /\ \E h \in 0..MaxHalfWidth : apply_max_width_to_bounds(R(h))
    /\ UNCHANGED <<cpsf_vars, poly_params, profile_params, ret, w>>

(* The argument values of apply_max_width_to_bounds: a half width or None. *)
None == << >>

HalfWidthArgs == {R(h) : h \in 0..MaxHalfWidth} \cup {None}

NewMaxHalfWidthDefault(arg, current) == IF arg = None THEN Inf ELSE arg

(* if max_half_width is not None: self.max_half_width = max_half_width.    *)
NewMaxHalfWidth(arg, current) == IF arg = None THEN current ELSE arg

(* A call of apply_max_width_to_bounds(arg); ret keeps the argument and    *)
(* the attributes before the call until the caller goes on.                *)
CallApplyMaxWidth ==
    /\ ret.op = "none"
    /\ \E arg \in HalfWidthArgs :
           /\ apply_max_width_to_bounds(NewMaxHalfWidth(arg, max_half_width))
           /\ ret' = [op |-> "apply_max_width", q |-> << >>, P |-> << >>,
                      apply_bounds |-> FALSE, err |-> FALSE, arg |-> arg,
                      before |-> [max_half_width |-> max_half_width,
                                  bounds_hard |-> bounds_hard,
                                  bounds_soft |-> bounds_soft]]
    /\ UNCHANGED <<cpsf_vars, poly_params, profile_params, w>>

(* The record of a call of from_poly_params_to_profile_params.             *)
ToProfileCall(q, ab) ==
    IF ToProfileRaises(q, Nx, deg)
    THEN [op |-> "to_profile", q |-> q, P |-> << >>, apply_bounds |-> ab, err |-> TRUE]
    ELSE [op |-> "to_profile", q |-> q,
          P |-> from_poly_params_to_profile_params(q, Nx, deg, ab, bounds_hard),
          apply_bounds |-> ab, err |-> FALSE]

(* A call of from_poly_params_to_profile_params(q, apply_bounds=ab) on a   *)
(* full-length vector; ret holds the arguments and the result until the    *)
(* caller has consumed it.                                                 *)
CallToProfile ==
    /\ ret.op = "none"
    /\ \E q \in PolyInputs(Nx, deg, saturation), ab \in BOOLEAN :
           ret' = ToProfileCall(q, ab)
    /\ UNCHANGED <<cpsf_vars, psf_vars, poly_params, profile_params, w>>

(* A call of from_profile_params_to_poly_params(P).                        *)
CallToPoly ==
    /\ ret.op = "none"
    /\ \E P \in ProfileInputs(Nx, deg, saturation) :
           ret' = [op |-> "to_poly", q |-> from_profile_params_to_poly_params(P, deg),
                   P |-> P, apply_bounds |-> FALSE, err |-> FALSE]
    /\ UNCHANGED <<cpsf_vars, psf_vars, poly_params, profile_params, w>>

(* The caller drops the returned array.                                    *)
Return ==
    /\ ret.op # "none"
    /\ ret' = NoCall
    /\ UNCHANGED <<cpsf_vars, psf_vars, poly_params, profile_params, w>>

InitTransform ==
    \E n \in 1..MaxNx, d \in 0..MaxDeg, sat \in Saturations :
        Constructed(n, 2, d, sat)

(* Expansion of polynomial vectors under every bounds state.               *)
NextTransform ==
    \/ ApplyMaxWidth
    \/ CallToProfile
    \/ Return

SpecTransform == InitTransform /\ [][NextTransform]_vars

(* Successive calls of apply_max_width_to_bounds on one PSF.               *)
NextBounds ==
    \/ CallApplyMaxWidth
    \/ Return

SpecBounds == InitTransform /\ [][NextBounds]_vars

(* A call of from_poly_params_to_profile_params on a vector that holds     *)
(* the shape coefficients only.                                            *)
CallToProfileShapeOnly ==
    /\ ret.op = "none"
    /\ \E q \in ShapeOnlyInputs(deg, saturation), ab \in BOOLEAN :
           ret' = ToProfileCall(q, ab)
    /\ UNCHANGED <<cpsf_vars, psf_vars, poly_params, profile_params, w>>

(* Spectrograms wide enough to hold fewer shape coefficients than columns. *)
InitShapeOnly ==
    \E n \in 1..MaxWideNx, d \in 0..MaxDeg, sat \in Saturations :
        Constructed(n, 2, d, sat)

(* Expansion of vectors without amplitudes.                                *)
NextShapeOnly ==
    \/ CallToProfileShapeOnly
    \/ Return

SpecShapeOnly == InitShapeOnly /\ [][NextShapeOnly]_vars

(* Compression of profile tables.                                          *)
NextToPoly ==
    \/ CallToPoly
    \/ Return

SpecToPoly == InitTransform /\ [][NextToPoly]_vars

NoiseLevels == {Zero, One}

(* A call of check_bounds(q, noise_level) on a full-length vector.         *)
CallCheckBounds ==
    /\ ret.op = "none"
    /\ \E q \in PolyInputs(Nx, deg, saturation), noise_level \in NoiseLevels :
       \E r \in {check_bounds(q, Nx, Ny, deg, noise_level, bounds_soft)} :
           ret' = [op |-> "check_bounds", q |-> q,
                   P |-> from_poly_params_to_profile_params(q, Nx, deg, FALSE, bounds_hard),
                   apply_bounds |-> FALSE, err |-> FALSE,
                   noise_level |-> noise_level, in_bounds |-> r.in_bounds,
                   penalty |-> r.penalty,
                   outbound_parameter_name |-> r.outbound_parameter_name]
    /\ UNCHANGED <<cpsf_vars, psf_vars, poly_params, profile_params, w>>

(* Bound checks of polynomial vectors under every bounds state.            *)
NextCheckBounds ==
    \/ ApplyMaxWidth
    \/ CallCheckBounds
    \/ Return

SpecCheckBounds == InitTransform /\ [][NextCheckBounds]_vars

----------------------------------------------------------------------------
(* MoffatGauss.evaluate.  The Moffat term (1 + rr/gamma^2)^(-alpha) is     *)
(* rational for an integer alpha and the Gaussian term vanishes for        *)
(* eta_gauss = 0; the shape inputs of the fit keep to these values, where  *)
(* float64 and exact arithmetic agree up to rounding.  NaN marks a value   *)
(* outside this domain.                                                    *)

RECURSIVE RPow(_, _)
RPow(a, n) == IF n = 0 THEN One ELSE RMul(a, RPow(a, n - 1))

(* (1 + rr_gg) ** (-alpha).                                                *)
MoffatTerm(rr_gg, alpha) ==
    IF alpha[2] = 1 /\ alpha[1] >= 0
    THEN RDiv(One, RPow(RAdd(One, rr_gg), alpha[1]))
    ELSE NaN

(* eta_gauss * np.exp(-(rr / (2 * stddev * stddev))).                      *)
GaussTerm(rr, eta_gauss, stddev) ==
    IF eta_gauss = Zero /\ IsFinite(rr) /\ stddev # Zero THEN Zero
    ELSE IF rr = Zero /\ stddev # Zero THEN eta_gauss
    ELSE NaN

(* np.clip(v, lo, hi): NaN passes through.                                 *)
clip(v_, lo, hi) ==
    Bind(v_, LAMBDA v :
        IF IsNaN(v) THEN v
        ELSE LET v1 == IF RLt(v, lo) THEN lo ELSE v
             IN  IF RGt(v1, hi) THEN hi ELSE v1)

Evaluate1DUnnormalised(ny, p_) ==
    Bind(p_, LAMBDA p :
        Array([i \in 1..ny |->
            Bind(RMul(RSub(R(i - 1), p[3]), RSub(R(i - 1), p[3])), LAMBDA rr :
                clip(RMul(RAdd(MoffatTerm(RDiv(rr, RMul(p[4], p[4])), p[5]),
                               GaussTerm(rr, p[6], p[7])), p[1]), Zero, p[8]))]))

(* evaluate(pixels, p) for pixels = np.arange(ny), ny >= 2: the transverse *)
(* profile normalised to the integral p[1] and clipped to [0, saturation]. *)
(* dx = np.gradient(pixels)[0] = 1.                                        *)
Evaluate1D(ny, p_) ==
    Bind(p_, LAMBDA p :
    Bind(Array([i \in 1..ny |->
             Bind(RMul(RSub(R(i - 1), p[3]), RSub(R(i - 1), p[3])), LAMBDA rr :
                 RAdd(MoffatTerm(RDiv(rr, RMul(p[4], p[4])), p[5]),
                      GaussTerm(rr, p[6], p[7])))]), LAMBDA a :
    Bind(RMul(RSum(a), One), LAMBDA integral :
    Bind(IF integral # Zero THEN RDiv(p[1], integral) ELSE p[1], LAMBDA norm :
        Array([i \in 1..ny |-> clip(RMul(a[i], norm), Zero, p[8])])))))

(* Transverse pixel arrays np.arange(ny) of 2 to MaxNy pixels.             *)
MaxNy == 3

(* Parameter vectors of one profile inside the construction bounds, on and *)
(* off the pixel centres, unsaturated and saturated.                       *)
EvaluateInputs ==
    {<<amplitude, Zero, y_mean, gs[1], gs[2], Zero, One, sat>> :
        amplitude \in {Zero, One, R(3)}, y_mean \in {R(-1), Zero, One},
        gs \in {<<One, R(2)>>, <<One, R(3)>>, <<R(2), R(2)>>},
        sat \in {Zero, Frac(1, 2), R(8), Inf}}

(* A call of psf.evaluate(np.arange(ny), p=p) on a fresh MoffatGauss.      *)
CallEvaluate ==
    /\ ret.op = "none"
    /\ \E p \in EvaluateInputs, ny \in 2..MaxNy :
           ret' = [op |-> "evaluate", q |-> p, P |-> Evaluate1D(ny, p),
                   apply_bounds |-> FALSE, err |-> FALSE]
    /\ UNCHANGED <<cpsf_vars, psf_vars, poly_params, profile_params, w>>

(* Evaluations of the transverse profile.                                  *)
NextEvaluate ==
    \/ CallEvaluate
    \/ Return

SpecEvaluate == InitTransform /\ [][NextEvaluate]_vars

(* Rational stand-in for np.pi.                                            *)
Pi == Frac(22, 7)

(* evaluate(pixels, p) for pixels = np.mgrid[:nx, :ny]: the image          *)
(* [y][x] (the transposed output), analytically normalised.                *)
Evaluate2D(nx, ny, p_) ==
    Bind(p_, LAMBDA p :
    Bind(RAdd(RDiv(RMul(Pi, RMul(p[4], p[4])), RSub(p[5], One)),
              RMul(p[6], RMul(R(2), RMul(Pi, RMul(p[7], p[7]))))), LAMBDA norm :
    Bind(RDiv(p[1], norm), LAMBDA scale :
        Array([j \in 1..ny |-> [i \in 1..nx |->
            Bind(RAdd(RMul(RSub(R(i - 1), p[2]), RSub(R(i - 1), p[2])),
                      RMul(RSub(R(j - 1), p[3]), RSub(R(j - 1), p[3]))), LAMBDA rr :
                clip(RMul(RAdd(MoffatTerm(RDiv(rr, RMul(p[4], p[4])), p[5]),
                               GaussTerm(rr, p[6], p[7])), scale),
                     Zero, p[8]))]]))))

----------------------------------------------------------------------------
(* Linear algebra of the amplitude solvers.                                *)

Dot(u_, v_) ==
    Bind2(u_, v_, LAMBDA u, v : RSum(Array([i \in 1..Len(u) |-> RMul(u[i], v[i])])))

MatVec(A_, v_) ==
    Bind2(A_, v_, LAMBDA A, v : Array([i \in 1..Len(A) |-> Dot(A[i], v)]))

Diag(v_) ==
    Bind(v_, LAMBDA v : Array([i \in 1..Len(v) |-> [j \in 1..Len(v) |->
                            IF i = j THEN v[i] ELSE Zero]]))

(* image.flatten() of an image [y][x]: row after row.                      *)
RECURSIVE FlattenFrom(_, _)
FlattenFrom(img, j) == IF j > Len(img) THEN << >> ELSE img[j] \o FlattenFrom(img, j + 1)

Flatten(img_) == Bind(Array(img_), LAMBDA img : FlattenFrom(img, 1))

(* np.linalg.cholesky raises LinAlgError unless the matrix is positive     *)
(* definite: every leading principal minor is positive.                    *)
PositiveDefinite(A_) ==
    Bind(A_, LAMBDA A :
        \A k \in 1..Len(A) :
            RGt(Det(Array([i \in 1..k |-> [j \in 1..k |-> A[i][j]]])), Zero))

(* L.T @ L with L = inv(cholesky(A)): the inverse of A (adjugate over      *)
(* determinant).                                                           *)
Inverse(A_) ==
    Bind(A_, LAMBDA A :
    Bind(Det(A), LAMBDA D :
        LET n == Len(A)
            Minor(r, c) == Array([i \in 1..(n - 1) |-> [j \in 1..(n - 1) |->
                               A[IF i < r THEN i ELSE i + 1][IF j < c THEN j ELSE j + 1]]])
            Cof(r, c) == IF n = 1 THEN One
                         ELSE RMul(R(IF (r + c) % 2 = 0 THEN 1 ELSE -1), Det(Minor(r, c)))
        IN  Array([i \in 1..n |-> [j \in 1..n |-> RDiv(Cof(j, i), D)]])))

----------------
(* Post-processing of the least-squares amplitudes.                        *)

ClipNegativeOff(amp) == amp

(* amplitude_params[amplitude_params < 0] = 0.                             *)
ClipNegative(amp_) ==
    Bind(amp_, LAMBDA amp :
        Array([x \in 1..Len(amp) |-> IF RLt(amp[x], Zero) THEN Zero ELSE amp[x]]))

SmoothWindow == 10

(* for i in range(i, hi): right = amp[i]; break if i is not a null index.  *)
RECURSIVE ScanRight(_, _, _, _, _)
ScanRight(amp, null, i, hi, cur) ==
    IF i >= hi THEN cur
    ELSE IF i \notin null THEN amp[i + 1]
    ELSE ScanRight(amp, null, i + 1, hi, amp[i + 1])

(* for i in range(i, lo, -1): left = amp[i]; break if i is not null.       *)
RECURSIVE ScanLeft(_, _, _, _, _)
ScanLeft(amp, null, i, lo, cur) ==
    IF i <= lo THEN cur
    ELSE IF i \notin null THEN amp[i + 1]
    ELSE ScanLeft(amp, null, i - 1, lo, amp[i + 1])

(* The loop over null_indices, in increasing order, updating in place.     *)
RECURSIVE SmoothFrom(_, _, _)
SmoothFrom(amp_, null, index) ==
    Bind(amp_, LAMBDA amp :
        IF index >= Len(amp) THEN amp
        ELSE IF index \notin null THEN SmoothFrom(amp, null, index + 1)
        ELSE LET n == Len(amp)
                 hi == IF index + SmoothWindow < n THEN index + SmoothWindow ELSE n
                 lo == IF index - SmoothWindow > 0 THEN index - SmoothWindow ELSE 0
                 right == ScanRight(amp, null, index, hi, amp[index + 1])
                 left == ScanLeft(amp, null, index, lo, amp[index + 1])
                 new == RMul(Frac(1, 2), RAdd(right, left))
             IN  SmoothFrom([amp EXCEPT ![index + 1] = new], null, index + 1))

(* The 'smooth' branch: null_indices = np.where(amplitude_params < 0)[0].  *)
Smooth(amp_) ==
    Bind(amp_, LAMBDA amp :
    Bind({x \in 0..(Len(amp) - 1) : RLt(amp[x + 1], Zero)}, LAMBDA null :
        SmoothFrom(amp, null, 0)))

(* Prior-dependent treatment of the least-squares amplitudes.              *)
ApplyPrior(prior, amp) ==
    CASE prior = "positive" -> ClipNegative(amp)
      [] prior = "smooth" -> Smooth(amp)
      [] OTHER -> amp

----------------------------------------------------------------------------
(* Fit workspaces of the chromatic PSF.  The workspace w is a record of    *)
(* the fields of ChromaticPSF1DFitWorkspace / ChromaticPSF2DFitWorkspace;  *)
(* images are sequences of rows, image[y + 1][x + 1]; the field            *)
(* amplitude_params_err2 holds the square of amplitude_params_err; raised  *)
(* names the exception that ended the last call on the workspace and      *)
(* shape_params is the argument of the last simulate that returned.        *)

(* parameters.PSF_FIT_REG_PARAM.                                           *)
PSF_FIT_REG_PARAM == Frac(1, 100)

(* The index of "y_mean_0" in poly_params_labels[length:], -1 if absent.   *)
y_mean_0_index(n, d) ==
    LET all == poly_params_labels(n, d)
        labels == Slice(all, n, Len(all))
        hits == {k \in 1..Len(labels) : labels[k] = <<"y_mean", 0>>}
    IN  IF hits = {} THEN -1
        ELSE (CHOOSE k \in hits : \A j \in hits : k <= j) - 1

(* img[bgd_width:-bgd_width, :].                                           *)
CropRows(img_, bw) ==
    Bind(img_, LAMBDA img : Slice(img, bw, IF bw = 0 THEN 0 ELSE Len(img) - bw))

RegularisationFirstRow(err_) ==
    Bind(err_, LAMBDA err :
        Diag(Array([i \in 1..Len(err[1]) |-> RMul(PSF_FIT_REG_PARAM,
            RDiv(One, RMul(err[1][i], err[1][i])))])))

(* self.Q = PSF_FIT_REG_PARAM * diag(1 / sum(err[:, i] ** 2)).             *)
RegularisationMatrix(err_) ==
    Bind(err_, LAMBDA err :
        Diag(Array([i \in 1..Len(err[1]) |-> RMul(PSF_FIT_REG_PARAM,
            RDiv(One, RSum(Array([j \in 1..Len(err) |-> RMul(err[j][i], err[j][i])]))))])))

(* ChromaticPSFFitWorkspace.__init__ followed by the subclass's own        *)
(* constructor lines, for a chromatic PSF holding the vector q.  bgd is    *)
(* the level returned by bgd_model_func (0 without one) and bgd_std the    *)
(* standard deviation of its Poisson sample.                               *)
ChromaticPSFFitWorkspace(kind, prior, q, n, d, data, data_errors, bgd, bgd_std, bw) ==
    Bind(CropRows(Array([j \in 1..Len(data) |-> [i \in 1..Len(data[j]) |->
                      RSub(data[j][i], bgd)]]), bw), LAMBDA dat :
    Bind(CropRows(data_errors, bw), LAMBDA err :
    Bind(Array([j \in 1..Len(dat) |-> [i \in 1..Len(dat[1]) |->
              RDiv(One, RMul(err[j][i], err[j][i]))]]), LAMBDA W :
    Bind(Slice(q, 0, Len(dat[1])), LAMBDA priors :
    Bind(IF prior = "psf1d" THEN RegularisationMatrix(err) ELSE << >>, LAMBDA Q :
        [kind |-> kind, prior |-> prior, raised |-> "none", fitted |-> FALSE,
         p |-> Slice(q, n, Len(q)), poly_params |-> q,
         y_mean_0_index |-> y_mean_0_index(n, d),
         Nx |-> Len(dat[1]), Ny |-> Len(dat), bgd_width |-> bw, bgd_std |-> bgd_std,
         data |-> dat, err |-> err, W |-> W,
         W_dot_data |-> Array([j \in 1..Len(dat) |-> [i \in 1..Len(dat[1]) |->
                            RMul(W[j][i], dat[j][i])]]),
         amplitude_params |-> Const(Len(dat[1]), Zero),
         amplitude_params_err2 |-> Const(Len(dat[1]), Zero),
         cov_matrix |-> Const(Len(dat[1]), Const(Len(dat[1]), Zero)),
         amplitude_priors |-> IF prior \in {"psf1d", "fixed"} THEN priors ELSE << >>,
         Q |-> Q,
         Q_dot_A0 |-> IF prior = "psf1d" THEN MatVec(Q, priors) ELSE << >>,
         model |-> << >>, shape_params |-> << >>])))))

(* The shift taken from the stored vector instead of the call's.           *)
ShiftedPolyParamsAccumulating(wk, shape_params) ==
    Bind(Slice(wk.poly_params, 0, wk.Nx) \o shape_params, LAMBDA pp :
        [pp EXCEPT ![wk.Nx + wk.y_mean_0_index + 1] =
            RSub(wk.poly_params[wk.Nx + wk.y_mean_0_index + 1], R(wk.bgd_width))])

(* The vector simulate expands: the workspace's amplitudes, the shape      *)
(* parameters of the call, y_mean_0 moved into the cropped frame.          *)
ShiftedPolyParams(wk, shape_params) ==
    Bind(Slice(wk.poly_params, 0, wk.Nx) \o shape_params, LAMBDA pp :
        [pp EXCEPT ![wk.Nx + wk.y_mean_0_index + 1] = RSub(@, R(wk.bgd_width))])

(* profile_params[:Nx, 0] = 1 and profile_params[:Nx, 1] = arange(Nx).     *)
UnitProfile(P_) ==
    Bind(P_, LAMBDA P :
        Array([x \in 1..Len(P) |-> [k \in 1..NParams |->
            IF k = 1 THEN One ELSE IF k = 2 THEN R(x - 1) ELSE P[x][k]]]))

Raised(wk, exc) == [wk EXCEPT !.raised = exc]

(* The 'fixed' branch: the priors verbatim; np.min over the positive       *)
(* entries raises ValueError when there is none.                           *)
SolveFixed(wk) ==
    Bind(wk.amplitude_priors, LAMBDA A0 :
    Bind({x \in 1..Len(A0) : RGt(A0[x], Zero)}, LAMBDA pos :
        IF pos = {} THEN [raised |-> "ValueError"]
        ELSE Bind(RMin([k \in 1..Cardinality(pos) |->
                      RAbs(A0[CHOOSE x \in pos :
                               Cardinality({z \in pos : z < x}) = k - 1])]), LAMBDA floor :
                 [raised |-> "none", amplitude_params |-> A0,
                  cov_matrix |-> Diag(Array([x \in 1..Len(A0) |->
                      IF RLe(A0[x], Zero) THEN floor ELSE A0[x]]))])))

(* The amplitude regression of ChromaticPSF1DFitWorkspace.simulate: one    *)
(* weighted least-squares problem per column.                              *)
Solve1D(wk, P) ==
    IF wk.prior = "fixed" THEN SolveFixed(wk)
    ELSE
    Bind(Array([x \in 1..wk.Nx |-> Evaluate1D(wk.Ny, P[x])]), LAMBDA M :
    Bind(Array([x \in 1..wk.Nx |-> RSum(Array([j \in 1..wk.Ny |->
              RMul(RMul(M[x][j], wk.W[j][x]), M[x][j])]))]), LAMBDA M_dot_W_dot_M :
    Bind(Array([x \in 1..wk.Nx |-> RSum(Array([j \in 1..wk.Ny |->
              RMul(M[x][j], wk.W_dot_data[j][x])]))]), LAMBDA M_dot_W_dot_data :
    Bind(RMul(Frac(1, 10), wk.bgd_std), LAMBDA floor :
        IF wk.prior = "psf1d"
        THEN Bind(Array([x \in 1..wk.Nx |->
                      Bind(RAdd(M_dot_W_dot_M[x], wk.Q[x][x]), LAMBDA plus_Q :
                          IF RGt(plus_Q, Zero) THEN RDiv(One, plus_Q) ELSE floor)]),
                  LAMBDA cov_Q :
                 [raised |-> "none",
                  amplitude_params |-> Array([x \in 1..wk.Nx |->
                      RMul(cov_Q[x], RAdd(M_dot_W_dot_data[x], wk.Q_dot_A0[x]))]),
                  cov_matrix |-> Diag(cov_Q)])
        ELSE [raised |-> "none",
              amplitude_params |-> ApplyPrior(wk.prior, Array([x \in 1..wk.Nx |->
                  IF RGt(M_dot_W_dot_M[x], Zero)
                  THEN RDiv(M_dot_W_dot_data[x], M_dot_W_dot_M[x]) ELSE floor])),
              cov_matrix |-> Diag(Array([x \in 1..wk.Nx |->
                  IF RGt(M_dot_W_dot_M[x], Zero)
                  THEN RDiv(One, M_dot_W_dot_M[x]) ELSE floor]))]))))

(* The amplitude regression of ChromaticPSF2DFitWorkspace.simulate: one    *)
(* linear system over all columns, inverted through its Cholesky factor.   *)
Solve2D(wk, P) ==
    IF wk.prior = "fixed" THEN SolveFixed(wk)
    ELSE
    Bind(Flatten(wk.W), LAMBDA Wf :
    Bind(Array([x \in 1..wk.Nx |-> Flatten(Evaluate2D(wk.Nx, wk.Ny, P[x]))]), LAMBDA M :
    Bind(Array([x \in 1..wk.Nx |-> [k \in 1..(wk.Nx * wk.Ny) |->
              RMul(M[x][k], Wf[k])]]), LAMBDA W_dot_M :
    Bind(Array([a \in 1..wk.Nx |-> [b \in 1..wk.Nx |-> Dot(M[a], W_dot_M[b])]]),
         LAMBDA M_dot_W_dot_M :
    Bind(MatVec(M, Flatten(wk.W_dot_data)), LAMBDA M_dot_W_dot_data :
    Bind(IF wk.prior = "psf1d"
         THEN Array([a \in 1..wk.Nx |-> [b \in 1..wk.Nx |->
                  RAdd(M_dot_W_dot_M[a][b], wk.Q[a][b])]])
         ELSE M_dot_W_dot_M, LAMBDA A :
    Bind(IF wk.prior = "psf1d"
         THEN Array([a \in 1..wk.Nx |-> RAdd(M_dot_W_dot_data[a], wk.Q_dot_A0[a])])
         ELSE M_dot_W_dot_data, LAMBDA rhs :
        IF ~PositiveDefinite(A) THEN [raised |-> "LinAlgError"]
        ELSE Bind(Inverse(A), LAMBDA cov_matrix :
                 [raised |-> "none",
                  amplitude_params |-> ApplyPrior(wk.prior, MatVec(cov_matrix, rhs)),
                  cov_matrix |-> cov_matrix]))))))))

(* ChromaticPSF1D.evaluate / ChromaticPSF2D.evaluate on the workspace's    *)
(* pixels, after apply_max_width_to_bounds(Ny // 2): the model image.      *)
EvaluateImage(kind, q, n, d, nx, ny) ==
    Bind(from_poly_params_to_profile_params(q, n, d, TRUE, WidthBounds(R(ny \div 2))),
         LAMBDA P :
        IF kind = "1D"
        THEN Bind(Array([x \in 1..n |-> Evaluate1D(ny, P[x])]), LAMBDA cols :
                 Array([j \in 1..ny |-> [x \in 1..n |-> cols[x][j]]]))
        ELSE Bind(Array([x \in 1..n |->
                      Evaluate2D(nx, ny, [P[x] EXCEPT ![2] = R(x - 1)])]), LAMBDA imgs :
                 Array([j \in 1..ny |-> [i \in 1..nx |->
                     RSum(Array([x \in 1..n |-> imgs[x][j][i]]))]])))

(* simulate(shape_params) of either chromatic workspace: the workspace    *)
(* after the call.  The call ends early with ValueError when shape_params  *)
(* does not fill poly_params[Nx:], with IndexError when the expansion      *)
(* reads an empty coefficient block, and with the solver's exception.      *)
simulate(wk, shape_params, n, d, bh) ==
    IF Len(shape_params) # Len(wk.poly_params) - wk.Nx THEN Raised(wk, "ValueError")
    ELSE
    Bind(ShiftedPolyParams(wk, shape_params), LAMBDA pp :
        IF ToProfileRaises(pp, n, d) THEN Raised(wk, "IndexError")
        ELSE
        Bind(UnitProfile(from_poly_params_to_profile_params(pp, n, d, TRUE, bh)),
             LAMBDA P :
        Bind(IF wk.kind = "1D" THEN Solve1D(wk, P) ELSE Solve2D(wk, P), LAMBDA sol :
            IF sol.raised # "none" THEN Raised(wk, sol.raised)
            ELSE
            Bind(sol.amplitude_params \o Slice(pp, wk.Nx, Len(pp)), LAMBDA out :
                [wk EXCEPT
                  !.raised = "none",
                  !.amplitude_params = sol.amplitude_params,
                  !.amplitude_params_err2 = Array([x \in 1..wk.Nx |->
                      IF wk.kind = "1D" /\ ~RGt(sol.cov_matrix[x][x], Zero)
                      THEN Zero ELSE sol.cov_matrix[x][x]]),
                  !.cov_matrix = sol.cov_matrix,
                  !.model = EvaluateImage(wk.kind, out, n, d, wk.Nx, wk.Ny),
                  !.poly_params = out,
                  !.shape_params = shape_params]))))

----------------------------------------------------------------------------
(* PSFFitWorkspace: the fit of one transverse profile.                     *)

(* PSFFitWorkspace.__init__ for a 1D data array and a PSF holding p.       *)
PSFFitWorkspace(p, data, data_errors) ==
    Bind(Array([j \in 1..Len(data) |->
              RDiv(One, RMul(data_errors[j], data_errors[j]))]), LAMBDA W :
        [kind |-> "psf", raised |-> "none",
         p |-> Tail(p), guess |-> p, saturation |-> p[NParams],
         Nx |-> 1, Ny |-> Len(data),
         bounds |-> Tail(WidthBounds(R(Len(data) \div 2))),
         data |-> data, err |-> data_errors, W |-> W,
         W_dot_data |-> Array([j \in 1..Len(data) |-> RMul(W[j], data[j])]),
         amplitude |-> Zero, model |-> << >>])

(* PSFFitWorkspace.simulate(shape_params).  The local variable amplitude  *)
(* is kept as a field of the record.                                       *)
simulate_psf(wk, shape_params) ==
    Bind(Evaluate1D(wk.Ny, <<One>> \o shape_params), LAMBDA M :
    Bind(RSum(Array([j \in 1..wk.Ny |-> RMul(RMul(M[j], wk.W[j]), M[j])])),
         LAMBDA M_dot_W_dot_M :
    Bind(RDiv(Dot(M, wk.W_dot_data), M_dot_W_dot_M), LAMBDA amplitude :
        [wk EXCEPT !.p = shape_params, !.amplitude = amplitude,
                   !.model = Evaluate1D(wk.Ny, <<amplitude>> \o shape_params)])))

----------------
(* Inputs of the fit.                                                      *)

BgdWidths == {1}

Priors == {"noprior", "positive", "smooth", "psf1d", "fixed"}

(* A focused Moffat profile without Gaussian part: x_mean 0, y_mean 1,     *)
(* gamma 1, alpha 2, eta_gauss 0, stddev 1, and the saturation level.      *)
FitCoef(k, sat) ==
    CASE k = 2 -> Zero
      [] k = 3 -> One
      [] k = 4 -> One
      [] k = 5 -> R(2)
      [] k = 6 -> Zero
      [] k = 7 -> One
      [] k = 8 -> sat

FitShape(d, sat) ==
    LET RECURSIVE Blocks(_)
        Blocks(k) == IF k > NParams THEN << >>
                     ELSE <<FitCoef(k, sat)>> \o Const(degrees(d, param_names[k]), Zero)
                          \o Blocks(k + 1)
    IN  Blocks(2)

(* Reference amplitudes: negative, zero and positive entries.              *)
FitAmp(n) == Array([x \in 1..n |-> R(x - 2)])

(* Vectors assigned to poly_params before a fit.                           *)
FitPolyInputs(n, d, sat) ==
    {FitAmp(n) \o FitShape(d, sat)}

(* Shape vectors handed to simulate, of the length of the workspace's p:   *)
(* the focused profile, unsaturated and with saturation level 0.           *)
ShapeInputs(wk, d, sat) ==
    {s \o Const(Len(wk.p) - Len(s), Zero) : s \in {FitShape(d, sat), FitShape(d, Zero)}}

(* The shape vector the minimiser stops on: the focused profile.           *)
FittedShapes(wk, d, sat) ==
    {s \o Const(Len(wk.p) - Len(s), Zero) : s \in {FitShape(d, sat)}}

DataVals == {R(-2), R(4)}

(* Spectrograms of ny rows whose rows are all equal.                       *)
DataInputs(n, ny) == {Const(ny, row) : row \in [1..n -> DataVals]}

(* Uncertainties: 1 everywhere, or infinite (zero weight) in column c.      *)
ErrInput(n, ny, c) == Const(ny, [x \in 1..n |-> IF x = c THEN Inf ELSE One])

(* Data, uncertainties, background level and the standard deviation of the *)
(* background's Poisson sample: without background model every weight      *)
(* pattern, with a background of level 1 a first column of zero weight     *)
(* under a flat spectrogram.                                               *)
WorkspaceInputs(n, ny) ==
    {[data |-> data, err |-> ErrInput(n, ny, c), bgd |-> Zero, bgd_std |-> Zero] :
        data \in DataInputs(n, ny), c \in {0, 1}}
    \cup {[data |-> Const(ny, Const(n, R(4))), err |-> ErrInput(n, ny, 1),
           bgd |-> One, bgd_std |-> One]}

(* Inputs of the 2D fit, for spectrograms of one or two columns.  Column c *)
(* has infinite uncertainty (c = 0: none).  With two columns the rows off  *)
(* the PSF centres are masked by an infinite uncertainty as well: this     *)
(* keeps the entries of the exact normal matrix within 32-bit integers,    *)
(* which three columns exceed.                                             *)
WorkspaceInputs2D(n, ny) ==
    IF n > 2 THEN {}
    ELSE {[data |-> data,
           err |-> [j \in 1..ny |-> IF j = 2 \/ n = 1 THEN ErrInput(n, ny, c)[j]
                                     ELSE Const(n, Inf)],
           bgd |-> b[1], bgd_std |-> b[2]] :
             data \in DataInputs(n, ny), c \in 0..n, b \in {<<Zero, Zero>>, <<One, One>>}}

PSFShapes(sat) == {<<Zero, Zero, One, R(2), Zero, One, s>> : s \in {sat, Zero}}

----------------------------------------------------------------------------
(* Operations of the fit.                                                  *)

Idle == ret.op = "none" /\ w.kind = "none"

(* self.poly_params = q, as the callers do with generated test vectors.    *)
SetPolyParams ==
    /\ Idle
    /\ \E q \in FitPolyInputs(Nx, deg, saturation) : poly_params' = q
    /\ UNCHANGED <<cpsf_vars, psf_vars, profile_params, ret, w>>

NewWorkspace(kind, inputs) ==
    /\ Idle
    /\ \E prior \in Priors, inp \in inputs, bw \in BgdWidths :
           /\ w' = ChromaticPSFFitWorkspace(kind, prior, poly_params, Nx, deg,
                                            inp.data, inp.err, inp.bgd, inp.bgd_std, bw)
           /\ apply_max_width_to_bounds(R((Ny - 2 * bw) \div 2))
    /\ UNCHANGED <<cpsf_vars, poly_params, profile_params, ret>>

(* ChromaticPSF1DFitWorkspace(chromatic_psf, data, data_errors, ...).      *)
NewWorkspace1D == NewWorkspace("1D", WorkspaceInputs(Nx, Ny))

(* ChromaticPSF2DFitWorkspace(chromatic_psf, data, data_errors, ...).      *)
NewWorkspace2D == NewWorkspace("2D", WorkspaceInputs2D(Nx, Ny))

(* PSFFitWorkspace(psf, data, data_errors) on one column of data.          *)
NewPSFWorkspace ==
    /\ Idle
    /\ \E s \in PSFShapes(saturation), data \in [1..2 -> DataVals],
          err \in [1..2 -> {One, Inf}] :
           w' = PSFFitWorkspace(<<One>> \o s, data, err)
    /\ UNCHANGED <<cpsf_vars, psf_vars, poly_params, profile_params, ret>>

SimulatePSF ==
    /\ w.kind = "psf"
    /\ \E s \in PSFShapes(saturation) : w' = simulate_psf(w, s)
    /\ UNCHANGED <<cpsf_vars, psf_vars, poly_params, profile_params, ret>>

Fitting == w.kind \in {"1D", "2D"} /\ ~w.fitted

(* w.simulate(shape_params); the model evaluation at its end resets the   *)
(* bounds of the PSF to the workspace's half height.                       *)
Simulate ==
    /\ Fitting
    /\ \E s \in ShapeInputs(w, deg, saturation) :
           /\ w' = simulate(w, s, Nx, deg, bounds_hard)
           /\ IF w'.raised = "none"
              THEN apply_max_width_to_bounds(R(w.Ny \div 2))
              ELSE UNCHANGED psf_vars
    /\ UNCHANGED <<cpsf_vars, poly_params, profile_params, ret>>

(* run_minimisation(w, method="newton", ...): the minimiser evaluates      *)
(* w.simulate on candidate vectors and stops on one of them.               *)
run_minimisation(wk, last, n, d, bh) == simulate(wk, last, n, d, bh)

(* ChromaticPSF.fit_chromatic_psf(w, data, ...): poly_params becomes the   *)
(* workspace's own array, so adding bgd_width to y_mean_0 changes both.    *)
FitChromaticPsf ==
    /\ Fitting
    /\ \E s \in FittedShapes(w, deg, saturation) :
       \E w1 \in {run_minimisation(w, s, Nx, deg, bounds_hard)} :
          IF w1.raised # "none"
          THEN w' = w1 /\ UNCHANGED <<psf_vars, poly_params, profile_params>>
          ELSE \E q \in {[w1.poly_params EXCEPT
                             ![w.Nx + w.y_mean_0_index + 1] = RAdd(@, R(w.bgd_width))]},
                  h \in {R(w.Ny \div 2 + w.bgd_width)} :
               /\ w' = [w1 EXCEPT !.poly_params = q, !.fitted = TRUE]
               /\ poly_params' = q
               /\ apply_max_width_to_bounds(h)
               /\ profile_params' =
                      LET P == from_poly_params_to_profile_params(q, Nx, deg, TRUE,
                                                                  WidthBounds(h))
                      IN  Array([x \in 1..Nx |-> [k \in 1..NParams |->
                              IF k = 1 THEN w1.amplitude_params[x]
                              ELSE IF k = 2 THEN R(x - 1) ELSE P[x][k]]])
    /\ UNCHANGED <<cpsf_vars, ret>>

InitFit ==
    \E n \in 1..MaxNx, d \in 0..MaxDeg, sat \in Saturations :
        Constructed(n, 4, d, sat)

(* The fit of a chromatic PSF: its vector, its 1D or 2D workspace, the     *)
(* amplitude regressions and the final fit; and the workspace of one       *)
(* transverse profile.                                                     *)
NextFit ==
    \/ SetPolyParams
    \/ NewWorkspace1D
    \/ NewWorkspace2D
    \/ NewPSFWorkspace
    \/ SimulatePSF
    \/ Simulate
    \/ FitChromaticPsf

SpecFit == InitFit /\ [][NextFit]_vars

----------------------------------------------------------------------------
(* Construction of workspaces on arbitrary configurations.  my_logger.error *)
(* writes a log record and returns: the statements that follow it in the    *)
(* source (return None, sys.exit()) are reached.                            *)

(* The names handed as amplitude_priors_method: the five known ones and a  *)
(* name outside amplitude_priors_list.                                     *)
PriorNames == Priors \cup {"median"}

(* Flat spectrograms with unit uncertainties, of the rows of the chromatic *)
(* PSF or two rows more; in 2D, of its rows and with the rows off the PSF  *)
(* centres masked.                                                         *)
ConstructInputs(kind, n, ny) ==
    IF kind = "1D"
    THEN {[data |-> Const(rows, Const(n, R(4))), err |-> Const(rows, Const(n, One)),
           bgd |-> Zero, bgd_std |-> Zero] : rows \in {ny, ny + 2}}
    ELSE IF n > 2 THEN {}
    ELSE {[data |-> Const(ny, Const(n, R(4))),
           err |-> [j \in 1..ny |-> IF j = 2 \/ n = 1 THEN Const(n, One) ELSE Const(n, Inf)],
           bgd |-> Zero, bgd_std |-> Zero]}

(* ChromaticPSF1DFitWorkspace / ChromaticPSF2DFitWorkspace (chromatic_psf, *)
(* data, data_errors, amplitude_priors_method=prior): the shape and prior  *)
(* checks log and the constructor goes on with the shape of the data.      *)
ConstructChromatic ==
    /\ Idle
    /\ \E kind \in {"1D", "2D"}, prior \in PriorNames, bw \in BgdWidths :
       \E inp \in ConstructInputs(kind, Nx, Ny) :
           /\ w' = ChromaticPSFFitWorkspace(kind, prior, poly_params, Nx, deg,
                                            inp.data, inp.err, inp.bgd, inp.bgd_std, bw)
           /\ apply_max_width_to_bounds(R((Len(inp.data) - 2 * bw) \div 2))
    /\ UNCHANGED <<cpsf_vars, poly_params, profile_params, ret>>

(* numpy arrays of any dimension: the shape and the flattened entries.     *)
NdArray(shape, v) ==
    LET RECURSIVE Size(_)
        Size(sh) == IF sh = << >> THEN 1 ELSE Head(sh) * Size(Tail(sh))
    IN  [shape |-> shape, flat |-> Const(Size(shape), v)]

PSFDataInputs == {NdArray(sh, R(4)) : sh \in {<<2>>, <<2, 1>>, <<1, 1, 2>>}}

PSFErrInputs == {NdArray(sh, One) : sh \in {<<2>>, <<3>>, <<2, 1>>, <<1, 2>>, <<1, 1, 2>>}}

(* PSFFitWorkspace.__init__(psf, data, data_errors) for arrays of any      *)
(* shape.  self.W @ self.data.flatten() raises ValueError when the sizes   *)
(* differ; Ny, Nx and pixels are set for 1 and 2 dimensions only.          *)
PSFFitWorkspaceInit(p, data, data_errors) ==
    Bind(Len(data.shape), LAMBDA ndim :
    Bind(IF ndim = 2 THEN data.shape[1] ELSE IF ndim = 1 THEN Len(data.flat) ELSE 0,
         LAMBDA ny :
    Bind(Array([j \in 1..Len(data_errors.flat) |->
              RDiv(One, RMul(data_errors.flat[j], data_errors.flat[j]))]), LAMBDA W :
        IF Len(W) # Len(data.flat)
        THEN [kind |-> "none", raised |-> "ValueError"]
        ELSE [kind |-> "psf", raised |-> "none",
              p |-> Tail(p), guess |-> p, saturation |-> p[NParams],
              Nx |-> IF ndim = 2 THEN data.shape[2] ELSE IF ndim = 1 THEN 1 ELSE 0,
              Ny |-> ny,
              pixels |-> IF ndim = 2 THEN "mgrid" ELSE IF ndim = 1 THEN "arange"
                         ELSE "unset",
              bounds |-> IF ndim \in {1, 2} THEN Tail(WidthBounds(R(ny \div 2)))
                         ELSE Tail(InitBounds),
              data |-> data, err |-> data_errors, W |-> W,
              W_dot_data |-> Array([j \in 1..Len(W) |-> RMul(W[j], data.flat[j])]),
              amplitude |-> Zero, model |-> << >>])))

ConstructPSF ==
    /\ Idle
    /\ \E s \in PSFShapes(saturation), data \in PSFDataInputs, err \in PSFErrInputs :
           w' = PSFFitWorkspaceInit(<<One>> \o s, data, err)
    /\ UNCHANGED <<cpsf_vars, psf_vars, poly_params, profile_params, ret>>

(* Workspaces built on any configuration, and the simulate calls on the    *)
(* chromatic ones.                                                         *)
NextConstruct ==
    \/ SetPolyParams
    \/ ConstructChromatic
    \/ ConstructPSF
    \/ Simulate

SpecConstruct == InitFit /\ [][NextConstruct]_vars

----------------------------------------------------------------------------
(* The outlier-removal fitters fit_PSF1D_outlier_removal and               *)
(* fit_PSF1D_minuit_outlier_removal.  The minimiser (scipy, Minuit) is a   *)
(* library call: the set of pixels beyond sigma after a round is any set   *)
(* of pixel indices.  ret holds the local variables of the running call.   *)

MaxNiter == 3

Fitters == {"fit_PSF1D_outlier_removal", "fit_PSF1D_minuit_outlier_removal"}

(* The indices of x: range(x.shape[0]).                                    *)
ClipPixels == 0..2

(* The default of the parameter consecutive.                               *)
consecutive == 3

(* The scan for runs of consecutive outliers: out is np.where(...)[0], in  *)
(* increasing order; test counts the unit gaps that end at position o.     *)
RECURSIVE ConsecutiveFrom(_, _, _)
ConsecutiveFrom(out, o, test) ==
    IF o > Len(out) THEN {}
    ELSE LET t == IF out[o] - out[o - 1] = 1 THEN test + 1 ELSE 0
         IN  (IF t >= consecutive - 1
              THEN {out[o - i] : i \in 0..(consecutive - 1)} ELSE {})
             \cup ConsecutiveFrom(out, o + 1, t)

Sorted(S) ==
    [k \in 1..Cardinality(S) |-> CHOOSE v \in S : Cardinality({u \in S : u < v}) = k - 1]

consecutive_outliers(outliers) == ConsecutiveFrom(Sorted(outliers), 2, 0)

(* One pass of the body of 'for step in range(niter)': the fit, the new    *)
(* outliers, and either the new indices or the break.                      *)
ClipStep(r, outliers) ==
    [r EXCEPT !.step = @ + 1,
              !.outliers = outliers,
              !.history = Append(@, outliers),
              !.indices = IF outliers # {} THEN ClipPixels \ outliers ELSE @,
              !.consecutive_outliers =
                  IF r.op = "fit_PSF1D_minuit_outlier_removal" /\ outliers # {}
                  THEN consecutive_outliers(outliers) ELSE @,
              !.done = (outliers = {}) \/ (r.step + 1 = r.niter)]

(* A call of one of the fitters with niter rounds allowed.                 *)
CallOutlierRemoval ==
    /\ ret.op = "none"
    /\ \E fitter \in Fitters, niter \in 1..MaxNiter :
           ret' = [op |-> fitter, niter |-> niter, step |-> 0, indices |-> ClipPixels,
                   outliers |-> {}, consecutive_outliers |-> {}, history |-> << >>,
                   done |-> FALSE]
    /\ UNCHANGED <<cpsf_vars, psf_vars, poly_params, profile_params, w>>

ClipRound ==
    /\ ret.op \in Fitters
    /\ ~ret.done
    /\ \E outliers \in SUBSET ClipPixels : ret' = ClipStep(ret, outliers)
    /\ UNCHANGED <<cpsf_vars, psf_vars, poly_params, profile_params, w>>

(* return model, outliers / return psf, consecutive_outliers.              *)
ReturnFit ==
    /\ ret.op \in Fitters
    /\ ret.done
    /\ ret' = NoCall
    /\ UNCHANGED <<cpsf_vars, psf_vars, poly_params, profile_params, w>>

NextClip ==
    \/ CallOutlierRemoval
    \/ ClipRound
    \/ ReturnFit

SpecClip == InitTransform /\ [][NextClip]_vars

----------------------------------------------------------------------------
(* ChromaticPSF.fit_transverse_PSF1D_profile: the walk over the columns.   *)
(* ret holds the local variables of the running call, the columns visited  *)
(* so far and, once assigned, the attribute fitted_pixels.                 *)

MaxStep == 3

(* ChromaticPSF.__init__: self.saturation = saturation, and 1e20 when the  *)
(* argument is None.  1e20 is kept as a stand-in above twice every data    *)
(* value of the inputs.                                                    *)
DEFAULT_SATURATION == R(1000000)

InitSaturation(sat) == IF sat = None THEN DEFAULT_SATURATION ELSE sat

(* Storing a float into the integer array np.copy(psf.p_default) drops its *)
(* fractional part.                                                        *)
Trunc(a_) == Bind(a_, LAMBDA a : R(Sign(a[1]) * (Abs(a[1]) \div a[2])))

(* ChromaticPSF.set_bounds: the pairs of the shape coefficients.           *)
set_bounds(d, sat) ==
    LET RECURSIVE Pairs(_)
        Pairs(k) ==
            IF k > NParams THEN << >>
            ELSE (IF param_names[k] = "saturation" THEN << <<Zero, RMul(R(2), sat)>> >>
                  ELSE Const(degrees(d, param_names[k]) + 1, <<NegInf, Inf>>))
                 \o Pairs(k + 1)
    IN  Pairs(2)

(* Spectrograms of ny equal rows with the peak 513/8 in column xmax and a  *)
(* quadratic fall on both sides.                                           *)
TransverseData(n, ny, xmax) ==
    Const(ny, [x \in 1..n |-> RSub(Frac(513, 8), R((x - 1 - xmax) * (x - 1 - xmax)))])

(* np.max(data).                                                           *)
MaxOf(data) ==
    CHOOSE v \in {data[j][x] : j \in 1..Len(data), x \in 1..Len(data[1])} :
        \A j \in 1..Len(data), x \in 1..Len(data[1]) : RLe(data[j][x], v)

(* int(np.unravel_index(np.argmax(data[middle - ws0:middle + ws0, :]),     *)
(* data.shape)[1]): the column of the first maximum of the band in         *)
(* row-major order.                                                        *)
xmax_index(data, ws0) ==
    LET n == Len(data[1])
        middle == Len(data) \div 2
        band == Slice(data, middle - ws0, middle + ws0)
        flat == Flatten(band)
        m == CHOOSE v \in {flat[i] : i \in 1..Len(flat)} :
                 \A i \in 1..Len(flat) : RLe(flat[i], v)
        first == CHOOSE i \in 1..Len(flat) :
                     flat[i] = m /\ \A j \in 1..(i - 1) : flat[j] # m
    IN  (first - 1) % n

(* np.arange(start, stop, step) for step > 0 and, downwards, for the step  *)
(* -step.                                                                  *)
ArangeUp(start, stop, step) ==
    [k \in 1..(IF stop > start THEN (stop - start + step - 1) \div step ELSE 0) |->
        start + (k - 1) * step]

ArangeDown(start, stop, step) ==
    [k \in 1..(IF start > stop THEN (start - stop + step - 1) \div step ELSE 0) |->
        start - (k - 1) * step]

Contains(seq, v) == \E i \in 1..Len(seq) : seq[i] = v

pixel_rangeNoEdges(xmax, nx, step) ==
    ArangeUp(xmax, nx, step) \o ArangeDown(xmax, -1, step)

(* pixel_range: from the maximum to the right, then from the maximum to    *)
(* the left, the last and the first column appended when the stride misses *)
(* them.                                                                   *)
pixel_range(xmax, nx, step) ==
    LET up == ArangeUp(xmax, nx, step)
        up1 == IF Contains(up, nx - 1) THEN up ELSE Append(up, nx - 1)
        both == up1 \o ArangeDown(xmax, -1, step)
    IN  IF Contains(both, 0) THEN both ELSE Append(both, 0)

(* The column sum np.nansum(signal) of column x (0-based).                 *)
ColumnSum(data, x) == RSum([j \in 1..Len(data) |-> data[j][x + 1]])

(* init_guess: p_default with the amplitude, the position, the centre and  *)
(* the saturation of the call, stored into the integer array.              *)
init_guess(data, xmax, sat) ==
    << Trunc(RMul(R(2), MaxOf(<<[j \in 1..Len(data) |-> data[j][xmax + 1]]>>))),
       R(xmax), R(Len(data) \div 2), R(3), R(2), Zero, One, Trunc(sat) >>

(* The displacements of the minimum from the guess, one drawn per call.    *)
Drifts == {Zero, One}

(* run_minimisation_sigma_clipping(w, method="minuit", ...) followed by    *)
(* best_fit = w.psf.p: the minimiser stops on the guess of the column with *)
(* gamma displaced by drift.                                               *)
run_minimisation_sigma_clipping(guess, drift) == [guess EXCEPT ![4] = RAdd(@, drift)]

ColumnGuessFromBestFit(x, xmax, init, guess, best_fit) ==
    IF x = xmax THEN init ELSE best_fit

(* The vector the guess of column x starts from: 'guess = np.copy(guess)', *)
(* and np.copy(init_guess) on the column of the maximum; 'guess =          *)
(* best_fit' is commented out.                                             *)
ColumnGuess(x, xmax, init, guess, best_fit) ==
    IF x = xmax THEN init ELSE guess

(* interp1d(xp, yp, kind='cubic')(x) on at least four nodes: the           *)
(* not-a-knot spline is the cubic through the nodes when one cubic passes  *)
(* through all of them, as for the polynomial columns of the inputs; NaN   *)
(* marks a column outside this domain.                                     *)
interp1d_cubic(xp, yp, x) ==
    LET L(i) == RMul(yp[i],
                     LET RECURSIVE Prod(_)
                         Prod(j) == IF j > 4 THEN One
                                    ELSE IF j = i THEN Prod(j + 1)
                                    ELSE RMul(Frac(x - xp[j], xp[i] - xp[j]), Prod(j + 1))
                     IN  Prod(1))
        Cubic(t) == LET RECURSIVE Prod2(_, _)
                        Prod2(i, j) == IF j > 4 THEN One
                                       ELSE IF j = i THEN Prod2(i, j + 1)
                                       ELSE RMul(Frac(t - xp[j], xp[i] - xp[j]), Prod2(i, j + 1))
                    IN  RSum([i \in 1..4 |-> RMul(yp[i], Prod2(i, 1))])
    IN  IF \A k \in 5..Len(xp) : Cubic(xp[k]) = yp[k]
        THEN RSum([i \in 1..4 |-> L(i)])
        ELSE NaN

(* The saturation levels handed to the call: None or a level.              *)
TransverseSaturations == Saturations \cup {None}

(* fit_transverse_PSF1D_profile(data, err, w, ws, pixel_step, saturation)  *)
(* on a fresh chromatic PSF, up to the start of the loop.                  *)
CallFitTransverse ==
    /\ Idle
    /\ profile_params = Const(Nx, Const(NParams, Zero))
    /\ \E xmax \in 0..(Nx - 1), pixel_step \in 1..MaxStep, sat \in TransverseSaturations,
          drift \in Drifts :
       \E data \in {TransverseData(Nx, Ny, xmax)} :
       \E col \in {xmax_index(data, 1)},
          level \in {IF sat = None THEN RMul(R(2), MaxOf(data)) ELSE sat} :
       \E g \in {init_guess(data, col, level)} :
           ret' = [op |-> "fit_transverse", data |-> data, pixel_step |-> pixel_step,
                   saturation_arg |-> sat, saturation |-> level, xmax_index |-> col,
                   init_guess |-> g, guess |-> g, best_fit |-> g, drift |-> drift,
                   pixel_range |-> pixel_range(col, Nx, pixel_step),
                   visited |-> << >>, fitted_pixels |-> [x \in 1..Nx |-> x - 1],
                   raised |-> "none"]
    /\ UNCHANGED <<cpsf_vars, psf_vars, poly_params, profile_params, w>>

(* One pass of 'for x in pixel_range': the guess of the column, its fit    *)
(* and the row of profile_params.                                          *)
FitColumn ==
    /\ ret.op = "fit_transverse"
    /\ Len(ret.visited) < Len(ret.pixel_range)
    /\ \E x \in {ret.pixel_range[Len(ret.visited) + 1]} :
       \E g \in {[ColumnGuess(x, ret.xmax_index, ret.init_guess, ret.guess, ret.best_fit)
                     EXCEPT ![1] = Trunc(ColumnSum(ret.data, x)), ![2] = R(x)]} :
       \E best_fit \in {run_minimisation_sigma_clipping(g, ret.drift)} :
           /\ profile_params' = [profile_params EXCEPT ![x + 1] = best_fit]
           /\ ret' = [ret EXCEPT !.guess = g, !.best_fit = best_fit,
                                 !.visited = Append(@, x)]
    /\ UNCHANGED <<cpsf_vars, psf_vars, poly_params, w>>

(* After the loop: fitted_pixels, the interpolation of the columns left    *)
(* out and poly_params.  interp1d raises ValueError on fewer than 4 nodes. *)
FinishFitTransverse ==
    /\ ret.op = "fit_transverse"
    /\ Len(ret.visited) = Len(ret.pixel_range)
    /\ \E xp \in {Sorted({ret.pixel_range[i] : i \in 1..Len(ret.pixel_range)})} :
          IF Len(xp) < 4
          THEN /\ ret' = [ret EXCEPT !.op = "fit_transverse_done", !.fitted_pixels = xp,
                                     !.raised = "ValueError"]
               /\ UNCHANGED <<poly_params, profile_params>>
          ELSE \E P \in {Array([x \in 1..Nx |-> [k \in 1..NParams |->
                            interp1d_cubic(xp, [i \in 1..Len(xp) |->
                                               profile_params[xp[i] + 1][k]], x - 1)]])} :
               /\ ret' = [ret EXCEPT !.op = "fit_transverse_done", !.fitted_pixels = xp]
               /\ profile_params' = P
               /\ poly_params' = Array(from_profile_params_to_poly_params(P, deg))
    /\ UNCHANGED <<cpsf_vars, psf_vars, w>>

ReturnTransverse ==
    /\ ret.op = "fit_transverse_done"
    /\ ret' = NoCall
    /\ UNCHANGED <<cpsf_vars, psf_vars, poly_params, profile_params, w>>

(* Chromatic PSFs of degree 0 on spectrograms of 4 rows, built with a      *)
(* saturation level or without one.                                        *)
InitTransverse ==
    \E n \in 1..MaxWideNx, sat \in TransverseSaturations :
        Constructed(n, 4, 0, InitSaturation(sat))

NextTransverse ==
    \/ CallFitTransverse
    \/ FitColumn
    \/ FinishFitTransverse
    \/ ReturnTransverse

SpecTransverse == InitTransverse /\ [][NextTransverse]_vars

----------------------------------------------------------------------------
(* SpectrogramFitWorkspace (fit_spectrogram.py): the fit of a spectrogram  *)
(* of one column.  w holds the workspace, its field simulation the caching *)
(* flags of the SpectrogramModel; ret holds the local variables of a       *)
(* jacobian call and, after its return, the epsilon array of the caller,   *)
(* which jacobian changes in place.  The atmosphere object of the          *)
(* SpectrogramModel, which jacobian puts back as it found it, is left out. *)

MaxPixWidth == 2

MaxExponent == 2

(* bgd_width of the values c of parameters.PIXWIDTH_SIGNAL,                *)
(* PIXWIDTH_BACKGROUND and PIXDIST_BACKGROUND.                             *)
bgd_width(c) == c.PIXWIDTH_BACKGROUND + c.PIXDIST_BACKGROUND - c.PIXWIDTH_SIGNAL

(* The configurations: a signal region of half width 1 next to the         *)
(* background regions, and bgd_width >= 0.                                 *)
CropConfigs ==
    {c \in [PIXWIDTH_SIGNAL : {1}, PIXWIDTH_BACKGROUND : 1..MaxPixWidth,
            PIXDIST_BACKGROUND : {0}] : bgd_width(c) >= 0}

(* The extracted spectrogram: the signal region and the two background     *)
(* regions at their distance, above and below the middle.                  *)
RawNy(c) == 2 * (c.PIXWIDTH_BACKGROUND + c.PIXDIST_BACKGROUND)

(* crop_spectrogram: spectrogram[bgd_width:-bgd_width, :], the same slice  *)
(* for spectrogram_err.                                                    *)
crop_spectrogram(img, c) == CropRows(img, bgd_width(c))

(* psf_poly_params: one free coefficient, labelled gamma_0.                *)
PsfPolyParams == <<R(3)>>

(* self.p of the constructor: A1, A2, aerosols, angstrom_exponent_log10,   *)
(* ozone, pwv, D, shift_x, shift_y, angle, B and the two PSF blocks.       *)
SpectrogramGuess ==
    <<One, One, Frac(1, 20), R(-2), R(400), R(5), R(55), Zero, Zero, Zero, One>>
    \o PsfPolyParams \o PsfPolyParams

(* self.bounds, for GRATING_ORDER_2OVER1 = 20, DISTANCE2CCD_ERR = 1/20 and *)
(* the unbounded pairs of set_bounds for the PSF blocks.                   *)
SpectrogramBounds ==
    << <<Zero, R(2)>>, <<Zero, Frac(2, 20)>>, <<Zero, Frac(1, 10)>>, <<R(-5), R(2)>>,
       <<R(100), R(700)>>, <<Zero, R(10)>>,
       <<RSub(R(55), Frac(5, 20)), RAdd(R(55), Frac(5, 20))>>,
       <<R(-2), R(2)>>, <<R(-10), R(10)>>, <<R(-90), R(90)>>, <<Frac(4, 5), Frac(6, 5)>> >>
    \o Const(2 * Len(PsfPolyParams), <<NegInf, Inf>>)

(* self.fixed for a spectrum without A2_T in its header and no atmospheric *)
(* grid.                                                                   *)
SpectrogramFixed(fit_angstrom_exponent) ==
    [k \in 1..Len(SpectrogramGuess) |->
        \/ k - 1 \in {1, 7, 8, 9, 10}
        \/ k - 1 = 3 /\ ~fit_angstrom_exponent]

fixed_psf_params == {0, 1, 2, 3, 4, 5, 9}

atm_params_indices == {2, 3, 4, 5}

MaskedWeightsAccumulating(W_before_mask, W, mask) ==
    [i \in 1..Len(W) |-> IF i - 1 \in mask THEN Zero ELSE W[i]]

(* self.W = np.copy(self.W_before_mask); self.W[mask] = 0.                 *)
MaskedWeights(W_before_mask, W, mask) ==
    [i \in 1..Len(W_before_mask) |-> IF i - 1 \in mask THEN Zero ELSE W_before_mask[i]]

(* set_mask: the footprint of the PSF cube comes from build_psf_cube and   *)
(* convolve2d, so mask is any set of flat pixel indices.                   *)
set_mask(wk, mask) ==
    [wk EXCEPT !.W = MaskedWeights(wk.W_before_mask, wk.W, mask), !.mask = Sorted(mask)]

(* The masks of a spectrogram of npix pixels: none, the first pixel, all.  *)
MaskInputs(npix) == {{}, 0..(npix - 1)} \cup (IF npix = 0 THEN {} ELSE {{0}})

(* SpectrogramFitWorkspace.__init__ up to the call of set_mask.            *)
SpectrogramFitWorkspace(fit_angstrom_exponent, c, fix_psf_cube) ==
    LET spectrogram == crop_spectrogram(Const(RawNy(c), <<R(4)>>), c)
        spectrogram_err == crop_spectrogram([j \in 1..RawNy(c) |-> <<R((j % 2) + 1)>>], c)
        err == Flatten(spectrogram_err)
        W == [i \in 1..Len(err) |-> RDiv(One, RMul(err[i], err[i]))]
    IN  [kind |-> "spectrogram", raised |-> "none",
         fit_angstrom_exponent |-> fit_angstrom_exponent,
         config |-> c, raw_Ny |-> RawNy(c),
         Ny |-> Len(spectrogram), Nx |-> 1,
         data |-> Flatten(spectrogram), err |-> err,
         p |-> SpectrogramGuess, called_with |-> None,
         bounds |-> SpectrogramBounds,
         fixed |-> SpectrogramFixed(fit_angstrom_exponent),
         simulation |-> [fix_psf_cube |-> fix_psf_cube, fix_atm_sim |-> FALSE],
         W |-> W, W_before_mask |-> W, mask |-> << >>, model |-> << >>]

(* 10 ** x for an integer x.                                               *)
Pow10(x) == IF x[1] >= 0 THEN RPow(R(10), x[1]) ELSE RDiv(One, RPow(R(10), -x[1]))

Pow10Defined(x) == x # None /\ x[2] = 1 /\ x[1] \in (-3 * MaxExponent)..MaxExponent

(* SpectrogramModel.simulate: a flat model, linear in its arguments, which *)
(* does not depend on the caching flags.                                   *)
SpectrogramModelSimulate(args, npix) ==
    [i \in 1..npix |->
        RSum([k \in 1..Len(args) |->
            IF args[k] = None THEN Zero ELSE RMul(R(((k + i) % 3) + 1), args[k])])]

(* SpectrogramFitWorkspace.simulate(params).                              *)
simulate_spectrogram(wk, params) ==
    LET angstrom_exponent == IF wk.fit_angstrom_exponent THEN Pow10(params[4]) ELSE None
        args == [params EXCEPT ![4] = angstrom_exponent]
    IN  [wk EXCEPT !.p = args, !.called_with = params,
                   !.model = SpectrogramModelSimulate(args, Len(wk.data))]

StepSignNeverFlipped(p, epsilon, bound) == epsilon

(* The step of a column of the Jacobian: its sign flips when p + epsilon   *)
(* leaves the bounds.                                                      *)
StepSign(p, epsilon, bound) ==
    IF RLt(RAdd(p, epsilon), bound[1]) \/ RGt(RAdd(p, epsilon), bound[2])
    THEN RNeg(epsilon) ELSE epsilon

FlagsOfEntry(ip, strategy) == [fix_psf_cube |-> strategy, fix_atm_sim |-> FALSE]

(* The caching flags of column ip.                                         *)
FlagsOfColumn(ip, strategy) ==
    [fix_psf_cube |-> ip \in fixed_psf_params, fix_atm_sim |-> ip \notin atm_params_indices]

(* No jacobian call is running or returning.                               *)
AtRest == ret.op \in {"none", "epsilon"}

(* SpectrogramFitWorkspace(file_name, fit_angstrom_exponent=...): the      *)
(* constructor, which ends on set_mask().                                  *)
NewSpectrogramWorkspace ==
    /\ Idle
    /\ \E fit_angstrom_exponent \in BOOLEAN, c \in CropConfigs, fix_psf_cube \in BOOLEAN :
       \E wk \in {SpectrogramFitWorkspace(fit_angstrom_exponent, c, fix_psf_cube)} :
       \E mask \in MaskInputs(Len(wk.data)) :
           w' = set_mask(wk, mask)
    /\ UNCHANGED <<cpsf_vars, psf_vars, poly_params, profile_params, ret>>

(* w.set_mask(params).                                                     *)
SetMask ==
    /\ w.kind = "spectrogram" /\ AtRest
    /\ \E mask \in MaskInputs(Len(w.data)) : w' = set_mask(w, mask)
    /\ UNCHANGED <<cpsf_vars, psf_vars, poly_params, profile_params, ret>>

(* The vectors handed to simulate: the guess, the guess with exponent 0,   *)
(* and the workspace's own w.p.                                            *)
SimulateInputs(wk) ==
    {SpectrogramGuess, [SpectrogramGuess EXCEPT ![4] = Zero]}
    \cup (IF ~wk.fit_angstrom_exponent \/ Pow10Defined(wk.p[4]) THEN {wk.p} ELSE {})

(* w.simulate(params).                                                    *)
SimulateSpectrogram ==
    /\ w.kind = "spectrogram" /\ AtRest
    /\ \E params \in SimulateInputs(w) : w' = simulate_spectrogram(w, params)
    /\ UNCHANGED <<cpsf_vars, psf_vars, poly_params, profile_params, ret>>

(* The vectors handed to jacobian: the guess, and the guess with A1 and    *)
(* aerosols on their upper bounds.                                         *)
JacobianParams ==
    {SpectrogramGuess, [SpectrogramGuess EXCEPT ![1] = R(2), ![3] = Frac(1, 10)]}

(* The steps: 1 everywhere, or 1/2 with the integer step -1 on the         *)
(* exponent; and the array left by the call before.                        *)
EpsilonInputs ==
    {Const(Len(SpectrogramGuess), One),
     [k \in 1..Len(SpectrogramGuess) |-> IF k = 4 THEN R(-1) ELSE Frac(1, 2)]}
    \cup (IF ret.op = "epsilon" THEN {ret.epsilon} ELSE {})

(* The fixed_params of the call: the workspace's, or the parameters the    *)
(* workspace leaves free.                                                  *)
FixedInputs(wk) == {wk.fixed, [k \in 1..Len(wk.fixed) |-> ~wk.fixed[k]]}

(* jacobian(params, epsilon, fixed_params, model_input) up to the loop;    *)
(* with_input tells whether model_input holds the model of params.  The    *)
(* fields supplied and entry keep the epsilon array and the flags as they  *)
(* were when the call started.                                             *)
JacobianStart ==
    /\ w.kind = "spectrogram" /\ AtRest
    /\ \E params \in JacobianParams, epsilon \in EpsilonInputs,
          fixed_params \in FixedInputs(w), with_input \in BOOLEAN :
       \E w1 \in {simulate_spectrogram(w, params)} :
           /\ w' = IF with_input THEN w ELSE w1
           /\ ret' = [op |-> "jacobian", params |-> params, epsilon |-> epsilon,
                      fixed_params |-> fixed_params, model |-> w1.model,
                      J |-> Const(Len(params), Const(Len(w1.model), Zero)),
                      strategy |-> w.simulation.fix_psf_cube,
                      supplied |-> epsilon, entry |-> w.simulation,
                      ip |-> -1, tmp_p |-> params, columns |-> {}]
    /\ UNCHANGED <<cpsf_vars, psf_vars, poly_params, profile_params>>

(* The columns still to come: the parameters after ip that are not fixed.  *)
FreeAfter(ip) == {k \in (ip + 1)..(Len(ret.params) - 1) : ~ret.fixed_params[k + 1]}

(* One pass of 'for ip, p in enumerate(params)' on the next parameter that *)
(* is not fixed.                                                           *)
JacobianColumn ==
    /\ ret.op = "jacobian"
    /\ FreeAfter(ret.ip) # {}
    /\ \E ip \in {CHOOSE k \in FreeAfter(ret.ip) : \A j \in FreeAfter(ret.ip) : k <= j} :
       \E flags \in {FlagsOfColumn(ip, ret.strategy)},
          eps \in {StepSign(ret.params[ip + 1], ret.epsilon[ip + 1], w.bounds[ip + 1])} :
       \E tmp_p \in {[ret.params EXCEPT ![ip + 1] = RAdd(@, eps)]} :
       \E w1 \in {simulate_spectrogram(
                     [w EXCEPT !.simulation.fix_psf_cube = flags.fix_psf_cube,
                               !.simulation.fix_atm_sim = flags.fix_atm_sim], tmp_p)} :
           /\ w' = w1
           /\ ret' = [ret EXCEPT
                        !.epsilon[ip + 1] = eps,
                        !.J[ip + 1] = [i \in 1..Len(ret.model) |->
                                          RDiv(RSub(w1.model[i], ret.model[i]), eps)],
                        !.ip = ip, !.tmp_p = tmp_p, !.columns = @ \cup {ip}]
    /\ UNCHANGED <<cpsf_vars, psf_vars, poly_params, profile_params>>

(* After the loop: the flags are put back and J is returned.               *)
JacobianEnd ==
    /\ ret.op = "jacobian"
    /\ FreeAfter(ret.ip) = {}
    /\ \E flags \in {FlagsOfEntry(ret.ip, ret.strategy)} :
           w' = [w EXCEPT !.simulation.fix_psf_cube = flags.fix_psf_cube,
                          !.simulation.fix_atm_sim = flags.fix_atm_sim]
    /\ ret' = [ret EXCEPT !.op = "jacobian_done"]
    /\ UNCHANGED <<cpsf_vars, psf_vars, poly_params, profile_params>>

(* jacobian returns J; the caller keeps its epsilon array.                 *)
JacobianReturn ==
    /\ ret.op = "jacobian_done"
    /\ ret' = [op |-> "epsilon", epsilon |-> ret.epsilon]
    /\ UNCHANGED <<cpsf_vars, psf_vars, poly_params, profile_params, w>>

InitSpectrogram == Constructed(1, 4, 0, R(8))

NextSpectrogram ==
    \/ NewSpectrogramWorkspace
    \/ SetMask
    \/ SimulateSpectrogram
    \/ JacobianStart
    \/ JacobianColumn
    \/ JacobianEnd
    \/ JacobianReturn

SpecSpectrogram == InitSpectrogram /\ [][NextSpectrogram]_vars

----------------------------------------------------------------------------
(* The 'smooth' prior of simulate, one negative column at a time.  The     *)
(* least-squares amplitudes are any reals the data can give; the pass      *)
(* keeps null_indices as computed before the loop and rewrites             *)
(* amplitude_params in place.                                              *)

MaxAmpLen == 4

AmplitudeValues == {R(-3), R(-1), R(2)}

AmplitudeInputs ==
    UNION {[1..n -> AmplitudeValues] : n \in 1..MaxAmpLen}

(* null_indices = np.where(amplitude_params < 0)[0], 0-based.              *)
null_indices(amp) == {x \in 0..(Len(amp) - 1) : RLt(amp[x + 1], Zero)}

(* min(index + 10, self.Nx) and max(0, index - 10), the ends of the ranges.*)
RightEnd(index, n) == IF index + SmoothWindow < n THEN index + SmoothWindow ELSE n

LeftEnd(index) == IF index - SmoothWindow > 0 THEN index - SmoothWindow ELSE 0

(* amplitude_params = the least-squares solution of a 'smooth' workspace.  *)
SmoothStart ==
    /\ Idle
    /\ \E amp \in AmplitudeInputs :
          ret' = [op |-> "smooth", lstsq |-> amp, amplitude_params |-> amp,
                  null_indices |-> null_indices(amp), index |-> -1,
                  right |-> Zero, left |-> Zero]
    /\ UNCHANGED <<cpsf_vars, psf_vars, poly_params, profile_params, w>>

RemainingNull == {x \in ret.null_indices : x > ret.index}

(* One pass of "for index in null_indices".                                *)
SmoothColumn ==
    /\ ret.op = "smooth"
    /\ RemainingNull # {}
    /\ \E index \in {x \in RemainingNull : \A y \in RemainingNull : x <= y} :
       \E right \in {ScanRight(ret.amplitude_params, ret.null_indices, index,
                               RightEnd(index, Len(ret.lstsq)),
                               ret.amplitude_params[index + 1])} :
       \E left \in {ScanLeft(ret.amplitude_params, ret.null_indices, index,
                             LeftEnd(index), ret.amplitude_params[index + 1])} :
          ret' = [ret EXCEPT !.index = index, !.right = right, !.left = left,
                             !.amplitude_params[index + 1] =
                                 RMul(Frac(1, 2), RAdd(right, left))]
    /\ UNCHANGED <<cpsf_vars, psf_vars, poly_params, profile_params, w>>

(* The loop is over: the array goes on to self.amplitude_params.           *)
SmoothEnd ==
    /\ ret.op = "smooth"
    /\ RemainingNull = {}
    /\ ret' = [op |-> "smoothed", lstsq |-> ret.lstsq,
               amplitude_params |-> ret.amplitude_params]
    /\ UNCHANGED <<cpsf_vars, psf_vars, poly_params, profile_params, w>>

SmoothReturn ==
    /\ ret.op = "smoothed"
    /\ ret' = NoCall
    /\ UNCHANGED <<cpsf_vars, psf_vars, poly_params, profile_params, w>>

InitSmooth == Constructed(1, 4, 0, R(8))

NextSmooth ==
    \/ SmoothStart
    \/ SmoothColumn
    \/ SmoothEnd
    \/ SmoothReturn

SpecSmooth == InitSmooth /\ [][NextSmooth]_vars

----------------------------------------------------------------------------
(* Properties of the transform component.                                  *)

InBounds(v, b) == RLe(b[1], v) /\ RLe(v, b[2])

TableInBounds(P, bh) ==
    \A x \in 1..Len(P) : \A k \in 1..NParams : InBounds(P[x][k], bh[k])

BoundsOrdered(bh) == \A k \in 1..NParams : RLe(bh[k][1], bh[k][2])

NonZeroCount(s) == Cardinality({i \in 1..Len(s) : s[i] # Zero})

(* The table before any clipping, for the vector of the last call.         *)
RawTable(q) == from_poly_params_to_profile_params(q, Nx, deg, FALSE, bounds_hard)

ClippedCall == ret.op = "to_profile" /\ ret.apply_bounds /\ ~ret.err

(* C1 as stated: whatever the bounds state, every entry returned with      *)
(* apply_bounds=True lies inside the hard bounds of its parameter.         *)
C1_AsStated == ClippedCall => TableInBounds(ret.P, bounds_hard)

(* C1 amended: when every hard-bound interval is non-empty (min <= max,    *)
(* i.e. max_half_width >= 0.1), every entry returned with                  *)
(* apply_bounds=True lies inside the hard bounds of its parameter.         *)
C1_BoundEnforcement ==
    (ClippedCall /\ BoundsOrdered(bounds_hard)) => TableInBounds(ret.P, bounds_hard)

C1_Witness ==
    /\ ClippedCall /\ BoundsOrdered(bounds_hard) /\ IsFinite(max_half_width)
    /\ \E x \in 1..Nx : \E k \in 2..NParams :
           /\ RGt(RawTable(ret.q)[x][k], bounds_hard[k][2])
           /\ ret.P[x][k] = bounds_hard[k][2]

(* Forward differences: a column sampled on an evenly spaced grid is a     *)
(* polynomial of degree <= d iff its (d+1)-th differences vanish.          *)
RECURSIVE PolyColumn(_, _)
PolyColumn(y, d) ==
    IF Len(y) <= d THEN TRUE
    ELSE IF d < 0 THEN \A i \in 1..Len(y) : y[i] = Zero
    ELSE PolyColumn(Array([i \in 1..(Len(y) - 1) |-> RSub(y[i + 1], y[i])]), d - 1)

PolyTable(P, d) ==
    \A k \in 2..NParams : PolyColumn(Column(P, k), degrees(d, param_names[k]))

RoundTripFromProfile ==
    from_poly_params_to_profile_params(ret.q, Nx, deg, FALSE, bounds_hard) = ret.P

(* C2 as stated: every valid profile table (entries inside the bounds,     *)
(* usable weights) is returned unchanged by to_poly followed by to_profile.*)
C2_AsStated ==
    (/\ ret.op = "to_poly"
     /\ TableInBounds(ret.P, bounds_hard)
     /\ NonZeroCount(Column(ret.P, 1)) >= deg + 1) => RoundTripFromProfile

(* C2 amended: a profile table whose shape columns are polynomials of      *)
(* degree <= their configured degree in the column index (saturation       *)
(* constant) and whose amplitude column has at least deg+1 non-zero        *)
(* entries is returned unchanged by to_poly followed by to_profile.        *)
C2_RoundTripPolynomialTables ==
    (/\ ret.op = "to_poly"
     /\ PolyTable(ret.P, deg)
     /\ NonZeroCount(Column(ret.P, 1)) >= deg + 1) => RoundTripFromProfile

C2_Witness ==
    /\ ret.op = "to_poly" /\ deg >= 1 /\ Nx >= 2
    /\ PolyTable(ret.P, deg)
    /\ NonZeroCount(Column(ret.P, 1)) >= deg + 1
    /\ \E k \in 2..(NParams - 1) : ret.P[1][k] # ret.P[Nx][k]
    /\ RoundTripFromProfile

(* C3: a full-length vector whose amplitudes give usable weights and whose *)
(* expansion lies inside the hard bounds is returned unchanged by          *)
(* to_profile (apply_bounds False or True) followed by to_poly.            *)
C3_Pre ==
    /\ ret.op = "to_profile" /\ ~ret.err
    /\ Len(ret.q) = Nx + NShape(deg)
    /\ NonZeroCount(Slice(ret.q, 0, Nx)) >= deg + 1
    /\ TableInBounds(RawTable(ret.q), bounds_hard)

C3_RoundTripFromPoly ==
    C3_Pre => from_profile_params_to_poly_params(ret.P, deg) = ret.q

C3_Witness ==
    /\ C3_Pre /\ ret.apply_bounds /\ deg >= 1 /\ Nx >= 3
    /\ \E x \in 1..Nx : ret.q[x] = Zero
    /\ \E k \in 2..(NParams - 1) : ret.P[1][k] # ret.P[Nx][k]
    /\ from_profile_params_to_poly_params(ret.P, deg) = ret.q

(* The coefficients of parameter k in a vector without amplitude block.    *)
OwnBlock(q, k) ==
    Slice(q, ShiftOf(deg, k), ShiftOf(deg, k) + degrees(deg, param_names[k]) + 1)

ShapeOnlyCall == ret.op = "to_profile" /\ Len(ret.q) = NShape(deg)

(* The call returned a table of unit amplitudes whose shape columns are    *)
(* the Legendre series of their own blocks (clipped when bounds apply).    *)
ShapeOnlyExpansion ==
    /\ ~ret.err
    /\ \A x \in 1..Nx :
           /\ ret.P[x][1] = One
           /\ \A k \in 2..NParams :
                  LET v == legval(linspace(Nx, x - 1), OwnBlock(ret.q, k))
                  IN  ret.P[x][k] = IF ret.apply_bounds THEN ClipHard(v, bounds_hard[k])
                                    ELSE v

(* C5 as stated: every vector made of the shape blocks only expands to     *)
(* unit amplitudes and to shape parameters read from offset 0, whatever    *)
(* Nx and the degrees.                                                     *)
C5_AsStated == ShapeOnlyCall => ShapeOnlyExpansion

(* C5: a vector made of the shape blocks only, no longer than Nx, expands  *)
(* to unit amplitudes and to shape parameters each evaluated from its own  *)
(* block of degree + 1 coefficients, read consecutively from offset 0.     *)
C5_ShapeOnlyExpansion ==
    (ShapeOnlyCall /\ Len(ret.q) <= Nx) => ShapeOnlyExpansion

(* A shape-only vector of exactly Nx coefficients whose gamma block was    *)
(* replaced, expanded without bounds.                                      *)
C5_Witness ==
    /\ ShapeOnlyCall
    /\ Len(ret.q) = Nx
    /\ ~ret.apply_bounds
    /\ ~ret.err
    /\ ret.P[Nx][1] = One
    /\ ret.P[Nx][4] = R(3)

----------------------------------------------------------------------------
(* Properties of the fit component.                                        *)

(* The workspace holds the result of a simulate call that returned, and    *)
(* the fit has not yet moved y_mean_0 back to the frame of the data.       *)
JustSimulated ==
    /\ w.kind \in {"1D", "2D"}
    /\ ~w.fitted
    /\ w.raised = "none"
    /\ w.model # << >>

(* The profile table the last simulate call regressed on.                  *)
LastProfile ==
    UnitProfile(from_poly_params_to_profile_params(w.poly_params, Nx, deg, TRUE,
                                                   WidthBounds(R(w.Ny \div 2))))

(* Column x of the 1D design matrix, M_x^T W_x M_x and M_x^T W_x y_x.      *)
M1(x) == Evaluate1D(w.Ny, LastProfile[x])

MWM1(x) ==
    LET m == M1(x)
    IN  RSum(Array([j \in 1..w.Ny |-> RMul(RMul(m[j], m[j]), w.W[j][x])]))

MWy1(x) ==
    LET m == M1(x)
    IN  RSum(Array([j \in 1..w.Ny |-> RMul(m[j], RMul(w.W[j][x], w.data[j][x]))]))

(* The 2D design matrix, one flattened image per column, M^T W M and       *)
(* M^T W y.                                                                *)
M2 == Array([x \in 1..w.Nx |-> Flatten(Evaluate2D(w.Nx, w.Ny, LastProfile[x]))])

MWM2 ==
    LET m == M2
        wf == Flatten(w.W)
    IN  Array([a \in 1..w.Nx |-> [b \in 1..w.Nx |->
            RSum(Array([k \in 1..Len(wf) |-> RMul(RMul(m[a][k], wf[k]), m[b][k])]))]])

MWy2 ==
    LET m == M2
        wf == Flatten(w.W)
        yf == Flatten(w.data)
    IN  Array([a \in 1..w.Nx |->
            RSum(Array([k \in 1..Len(wf) |-> RMul(m[a][k], RMul(wf[k], yf[k]))]))])

(* The amplitudes of the regression before the prior's post-processing.    *)
LeastSquares ==
    LET wk == [w EXCEPT !.prior = "noprior"]
    IN  IF w.kind = "1D" THEN Solve1D(wk, LastProfile).amplitude_params
        ELSE Solve2D(wk, LastProfile).amplitude_params

(* C4: poly_params has length Nx plus the sum of degree + 1 over the       *)
(* non-amplitude parameters, saturation counting one coefficient, and      *)
(* this is the number of poly_params_labels: after construction, and after *)
(* every fit.                                                              *)
C4_PolyParamsLength ==
    /\ Len(poly_params) = Nx + NShape(deg)
    /\ Len(poly_params) = Len(poly_params_labels(Nx, deg))

(* C6: in every amplitude solver a column whose M^T W M is zero gets       *)
(* amplitude 0 and a finite, strictly positive variance, and the solver    *)
(* neither raises nor returns NaN.                                         *)
C6_DegenerateColumn ==
    /\ w.kind = "2D" => w.raised # "LinAlgError"
    /\ (w.kind = "psf" /\ w.model # << >>) => ~IsNaN(w.amplitude)
    /\ (JustSimulated /\ w.kind = "1D" /\ w.prior # "fixed") =>
           \A x \in 1..w.Nx :
               MWM1(x) = Zero =>
                   /\ w.amplitude_params[x] = Zero
                   /\ IsFinite(w.cov_matrix[x][x])
                   /\ RGt(w.cov_matrix[x][x], Zero)

(* C7: with the prior 'positive' every amplitude of a 1D or 2D workspace   *)
(* is non-negative, whatever the data.                                     *)
C7_PositiveAmplitudes ==
    (w.kind \in {"1D", "2D"} /\ w.prior = "positive") =>
        \A x \in 1..w.Nx : RGe(w.amplitude_params[x], Zero)

(* A simulate call with the prior 'positive' whose regression gave a       *)
(* negative amplitude.                                                     *)
C7_Witness ==
    /\ JustSimulated
    /\ w.prior = "positive"
    /\ \E x \in 1..w.Nx : RLt(LeastSquares[x], Zero) /\ w.amplitude_params[x] = Zero

(* The nearest column to the left / right of x, at most SmoothWindow away, *)
(* whose least-squares amplitude is not negative; 0 if there is none.      *)
NearestLeft(ls, x) ==
    LET c == {i \in 1..(x - 1) : x - i <= SmoothWindow /\ RGe(ls[i], Zero)}
    IN  IF c = {} THEN 0 ELSE CHOOSE i \in c : \A j \in c : j <= i

NearestRight(ls, x) ==
    LET c == {i \in (x + 1)..Len(ls) : i - x <= SmoothWindow /\ RGe(ls[i], Zero)}
    IN  IF c = {} THEN 0 ELSE CHOOSE i \in c : \A j \in c : i <= j

(* C8: with the prior 'smooth' a negative least-squares amplitude becomes  *)
(* the average of the nearest non-negative amplitudes on its left and on   *)
(* its right, and the non-negative amplitudes are unchanged.               *)
C8_SmoothAverage ==
    (JustSimulated /\ w.prior = "smooth") =>
        LET ls == LeastSquares
        IN  \A x \in 1..w.Nx :
                /\ RGe(ls[x], Zero) => w.amplitude_params[x] = ls[x]
                /\ (RLt(ls[x], Zero) /\ NearestLeft(ls, x) # 0 /\ NearestRight(ls, x) # 0) =>
                       w.amplitude_params[x] =
                           RMul(Frac(1, 2), RAdd(ls[NearestLeft(ls, x)],
                                                 ls[NearestRight(ls, x)]))

(* Q_xx as the claim writes it, and the reference amplitudes of the        *)
(* chromatic PSF the workspace was built on.                               *)
Qxx(x) ==
    RDiv(PSF_FIT_REG_PARAM,
         RSum(Array([j \in 1..w.Ny |-> RMul(w.err[j][x], w.err[j][x])])))

A0(x) == poly_params[x]

(* C9: with the prior 'psf1d' the amplitudes solve the Tikhonov system     *)
(* (M^T W M + Q) A = M^T W y + Q A0, Q = PSF_FIT_REG_PARAM diag(1 / sum of *)
(* err^2 over a column); in 1D column by column, as the quotient           *)
(* (M_x^T W_x y_x + Q_xx A0_x) / (M_x^T W_x M_x + Q_xx).                   *)
C9_TikhonovAmplitudes ==
    (JustSimulated /\ w.prior = "psf1d") =>
        IF w.kind = "1D"
        THEN \A x \in 1..w.Nx :
                 RGt(RAdd(MWM1(x), Qxx(x)), Zero) =>
                     w.amplitude_params[x] =
                         RDiv(RAdd(MWy1(x), RMul(Qxx(x), A0(x))),
                              RAdd(MWM1(x), Qxx(x)))
        ELSE LET N == MWM2
                 b == MWy2
                 A == Array([x \in 1..w.Nx |-> [z \in 1..w.Nx |->
                          IF x = z THEN RAdd(N[x][z], Qxx(x)) ELSE N[x][z]]])
             IN  /\ Det(A) # Zero
                 /\ MatVec(A, w.amplitude_params) =
                        Array([x \in 1..w.Nx |-> RAdd(b[x], RMul(Qxx(x), A0(x)))])

(* A 1D simulate call with the prior 'psf1d' in which the regularisation   *)
(* moved an amplitude away from its least-squares value.                   *)
C9_Witness ==
    /\ JustSimulated
    /\ w.prior = "psf1d"
    /\ w.kind = "1D"
    /\ \E x \in 1..w.Nx :
           /\ RGt(Qxx(x), Zero)
           /\ RGt(MWM1(x), Zero)
           /\ A0(x) # Zero
           /\ w.amplitude_params[x] # RDiv(MWy1(x), MWM1(x))

(* C10: with the prior 'fixed' simulate returns for every reference        *)
(* vector, the amplitudes are the reference amplitudes and every diagonal  *)
(* entry of the covariance matrix is strictly positive.                    *)
C10_FixedAmplitudes ==
    (w.kind \in {"1D", "2D"} /\ w.prior = "fixed") =>
        /\ w.raised = "none"
        /\ (~w.fitted /\ w.model # << >>) =>
               /\ w.amplitude_params = Slice(poly_params, 0, w.Nx)
               /\ \A x \in 1..w.Nx : RGt(w.cov_matrix[x][x], Zero)

(* C11: when fit_chromatic_psf has returned, every entry of profile_params *)
(* lies inside the hard bounds of its parameter then in force, in every    *)
(* prior mode; no stored amplitude is below 0.                             *)
C11_FittedProfileInBounds ==
    (w.kind \in {"1D", "2D"} /\ w.fitted) =>
        /\ Len(profile_params) = Nx
        /\ TableInBounds(profile_params, bounds_hard)

----------------------------------------------------------------------------
(* Properties of check_bounds.                                             *)

CheckBoundsReturned == ret.op = "check_bounds" /\ ~ret.err

(* The parameters with soft bounds: neither amplitude nor saturation.      *)
SoftParams == {k \in 1..NParams : param_names[k] \notin {"amplitude", "saturation"}}

(* Total soft-bound violation of parameter k in the returned expansion.    *)
Violation(k) ==
    RAdd(ExcessAbove(Column(ret.P, k), bounds_soft[k][2]),
         ExcessBelow(Column(ret.P, k), bounds_soft[k][1]))

(* The violation of parameter k divided by the absolute mean of the same   *)
(* parameter (undivided when the mean is 0).                               *)
OwnContribution(k) ==
    LET m == mean(Column(ret.P, k))
    IN  IF isclose0(m) THEN Violation(k) ELSE RDiv(Violation(k), RAbs(m))

AmplitudeContribution ==
    RAbs(SumBelow(Column(ret.P, 1), RNeg(ret.noise_level)))

RECURSIVE SumOwnContributions(_)
SumOwnContributions(k) ==
    IF k > NParams THEN Zero
    ELSE RAdd(IF k \in SoftParams THEN OwnContribution(k) ELSE Zero,
              SumOwnContributions(k + 1))

(* C12: the penalty of check_bounds is Nx*Ny times the sum of the          *)
(* per-parameter contributions, each soft-bounded parameter contributing   *)
(* its own violation divided by the absolute mean of that parameter only.  *)
C12_PenaltyOwnMean ==
    CheckBoundsReturned =>
        ret.penalty = RMul(R(Nx * Ny), RAdd(AmplitudeContribution, SumOwnContributions(1)))

AmplitudeOut ==
    \E x \in 1..Nx : RLt(ret.P[x][1], RNeg(ret.noise_level))

SoftOut(k) ==
    \E x \in 1..Nx : ~InBounds(ret.P[x][k], bounds_soft[k])

Offending ==
    {param_names[k] : k \in {j \in SoftParams : SoftOut(j)}}
    \cup (IF AmplitudeOut THEN {"amplitude"} ELSE {})

(* C13: check_bounds returns in_bounds = True exactly when every expanded  *)
(* amplitude is >= -noise_level and every expanded value of the other      *)
(* parameters, saturation excepted, is within its soft bounds; the names   *)
(* returned are exactly the parameters with a violation.                   *)
C13_InBoundsAndNames ==
    CheckBoundsReturned =>
        /\ ret.in_bounds <=> (Offending = {})
        /\ {ret.outbound_parameter_name[i] :
               i \in 1..Len(ret.outbound_parameter_name)} = Offending

(* A check_bounds call whose only violations are below the lower soft      *)
(* bound of one parameter.                                                 *)
C13_Witness ==
    /\ CheckBoundsReturned
    /\ ~ret.in_bounds
    /\ \E k \in SoftParams :
           /\ Offending = {param_names[k]}
           /\ \A x \in 1..Nx : RLe(ret.P[x][k], bounds_soft[k][2])

----------------------------------------------------------------------------
(* Properties of the construction of workspaces.                           *)

(* C14: a chromatic fit workspace (1D or 2D) exists only with an           *)
(* amplitude_priors_method of amplitude_priors_list: construction with     *)
(* another name fails, and simulate never runs under an unknown mode.      *)
C14_UnknownPriorFails ==
    w.kind \in {"1D", "2D"} => w.prior \in Priors

(* C15: no workspace exists whose data and error arrays have different     *)
(* shapes, whose data dimension is neither 1 nor 2, or whose data shape    *)
(* differs from the (Ny, Nx) of the chromatic PSF.                         *)
C15_ShapeMismatchAborts ==
    /\ w.kind = "psf" =>
           /\ w.data.shape = w.err.shape
           /\ Len(w.data.shape) \in {1, 2}
    /\ w.kind \in {"1D", "2D"} =>
           /\ w.Ny + 2 * w.bgd_width = Ny
           /\ w.Nx = Nx

----------------------------------------------------------------------------
(* Properties of the bounds of the PSF.                                    *)

(* The intervals the claim gives for half width h.                         *)
ExpectedBounds(h) ==
    [k \in 1..NParams |->
        CASE param_names[k] = "y_mean" -> <<Zero, RMul(R(2), h)>>
          [] param_names[k] \in {"gamma", "stddev"} -> <<Frac(1, 10), h>>
          [] OTHER -> InitBounds[k]]

(* C16: after apply_max_width_to_bounds(h) the hard and soft bounds depend *)
(* on h only; a further call with the same h, or with None, leaves         *)
(* max_half_width, bounds_hard and bounds_soft unchanged.                  *)
C16_ApplyMaxWidthIdempotent ==
    ret.op = "apply_max_width" =>
        /\ ret.arg # None =>
               /\ max_half_width = ret.arg
               /\ bounds_hard = ExpectedBounds(ret.arg)
               /\ bounds_soft = ExpectedBounds(ret.arg)
        /\ (/\ ret.before.bounds_hard # InitBounds
            /\ ret.arg \in {None, ret.before.max_half_width}) =>
               /\ max_half_width = ret.before.max_half_width
               /\ bounds_hard = ret.before.bounds_hard
               /\ bounds_soft = ret.before.bounds_soft

(* A call with None on a PSF whose bounds an earlier call set for a finite *)
(* half width.                                                             *)
C16_Witness ==
    /\ ret.op = "apply_max_width"
    /\ ret.arg = None
    /\ ret.before.bounds_hard # InitBounds
    /\ ret.before.max_half_width = One
    /\ bounds_hard[3] = <<Zero, R(2)>>

----------------------------------------------------------------------------
(* Properties of MoffatGauss.evaluate.                                     *)

EvaluateReturned ==
    /\ ret.op = "evaluate"
    /\ \A k \in 1..NParams : InBounds(ret.q[k], bounds_hard[k])

(* Sum of the returned values times the pixel step 1.                      *)
RiemannSum == RSum(ret.P)

(* C17 as stated: for every parameter vector inside the hard bounds the    *)
(* returned 1D profile, clipped to [0, saturation], has Riemann sum equal  *)
(* to the amplitude.                                                       *)
C17_AsStated ==
    EvaluateReturned => RiemannSum = ret.q[1]

(* C17: for every parameter vector inside the hard bounds whose returned   *)
(* 1D profile has no clipped value (every value above 0 and below the      *)
(* saturation), the Riemann sum of the profile equals the amplitude.       *)
C17_RiemannSumUnclipped ==
    (/\ EvaluateReturned
     /\ \A i \in 1..Len(ret.P) : RGt(ret.P[i], Zero) /\ RLt(ret.P[i], ret.q[NParams])) =>
        RiemannSum = ret.q[1]

(* An unclipped profile centred off the pixel array, of amplitude 3 under  *)
(* a finite saturation.                                                    *)
C17_Witness ==
    /\ EvaluateReturned
    /\ \A i \in 1..Len(ret.P) : RGt(ret.P[i], Zero) /\ RLt(ret.P[i], ret.q[NParams])
    /\ ret.q[1] = R(3)
    /\ ret.q[3] = R(-1)
    /\ ret.q[NParams] = R(8)
    /\ ret.P[1] # ret.P[2]

----------------------------------------------------------------------------
(* Properties of the sigma-clipping loops.                                 *)

(* Round k rejected no pixel that the round before had not rejected.       *)
NoNewRejected(k) ==
    ret.history[k] \subseteq (IF k = 1 THEN {} ELSE ret.history[k - 1])

(* C19: a sigma-clipping loop performs at most niter rounds, and it stops  *)
(* as soon as a round rejects no pixel that was not already rejected in    *)
(* the previous round.                                                     *)
C19_ClipLoopStops ==
    ret.op \in Fitters =>
        /\ ret.step <= ret.niter
        /\ Len(ret.history) = ret.step
        /\ \A k \in 1..Len(ret.history) :
               NoNewRejected(k) => (Len(ret.history) = k /\ ret.done)

----------------------------------------------------------------------------
(* Properties of fit_transverse_PSF1D_profile.                             *)

InTransverseFit == ret.op \in {"fit_transverse", "fit_transverse_done"}

TwiceMaxData == RMul(R(2), MaxOf(ret.data))

(* C18: when no saturation level is supplied, neither to the chromatic PSF *)
(* nor to the transverse fit, the saturation attribute of the chromatic    *)
(* PSF, the upper saturation bound of set_bounds (twice the attribute) and *)
(* the last entry of the transverse-fit guess are all given by twice the   *)
(* maximum of the observed data.                                           *)
C18_SaturationTwiceMax ==
    (InTransverseFit /\ ret.saturation_arg = None /\ saturation = InitSaturation(None)) =>
        /\ saturation = TwiceMaxData
        /\ set_bounds(deg, saturation)[Len(set_bounds(deg, saturation))] =
               <<Zero, RMul(R(2), TwiceMaxData)>>
        /\ ret.init_guess[NParams] = TwiceMaxData

StrictlyIncreasing(seq, a, b) == \A i \in a..(b - 1) : seq[i] < seq[i + 1]

StrictlyDecreasing(seq, a, b) == \A i \in a..(b - 1) : seq[i] > seq[i + 1]

(* The columns visited so far start at xmax_index, rise strictly, and once *)
(* the walk has restarted, the rise ended on Nx - 1 and the second leg     *)
(* starts at xmax_index and falls strictly.                                *)
WalkSoFar(v) ==
    /\ \A i \in 1..Len(v) : v[i] \in 0..(Nx - 1)
    /\ v # << >> =>
          /\ v[1] = ret.xmax_index
          /\ \E m \in 1..Len(v) :
                /\ StrictlyIncreasing(v, 1, m)
                /\ m < Len(v) =>
                      /\ v[m] = Nx - 1
                      /\ v[m + 1] = ret.xmax_index
                      /\ StrictlyDecreasing(v, m + 1, Len(v))

(* The finished walk has both legs, the first ending on Nx - 1 and the     *)
(* second on 0.                                                            *)
WalkComplete(v) ==
    \E m \in 1..(Len(v) - 1) :
        /\ StrictlyIncreasing(v, 1, m) /\ v[m] = Nx - 1
        /\ v[m + 1] = ret.xmax_index
        /\ StrictlyDecreasing(v, m + 1, Len(v)) /\ v[Len(v)] = 0

(* C20: for every Nx >= 1, xmax_index in [0, Nx-1] and pixel_step >= 1,    *)
(* the transverse fit visits xmax_index first, then columns of strictly    *)
(* increasing index up to Nx-1, then restarts at xmax_index and visits     *)
(* columns of strictly decreasing index down to 0; every visited index is  *)
(* in [0, Nx-1]; fitted_pixels is the sorted duplicate-free list of the    *)
(* visited columns and holds 0 and Nx-1.                                   *)
C20_ColumnWalk ==
    InTransverseFit =>
        /\ ret.xmax_index \in 0..(Nx - 1)
        /\ WalkSoFar(ret.visited)
        /\ ret.op = "fit_transverse_done" =>
              /\ WalkComplete(ret.visited)
              /\ StrictlyIncreasing(ret.fitted_pixels, 1, Len(ret.fitted_pixels))
              /\ {ret.fitted_pixels[i] : i \in 1..Len(ret.fitted_pixels)} =
                     {ret.visited[i] : i \in 1..Len(ret.visited)}
              /\ Contains(ret.fitted_pixels, 0)
              /\ Contains(ret.fitted_pixels, Nx - 1)

(* A finished walk whose stride misses both edges: from column 2 of 6 in   *)
(* steps of 3 the walk is 2, 5, 2, 0; in steps of 2 from column 3 of 7 it  *)
(* is 3, 5, 6, 3, 1, 0.                                                    *)
C20_Witness ==
    /\ ret.op = "fit_transverse_done"
    /\ Nx = 7 /\ ret.pixel_step = 2 /\ ret.xmax_index = 3
    /\ ret.visited = <<3, 5, 6, 3, 1, 0>>
    /\ ret.fitted_pixels = <<0, 1, 3, 5, 6>>

LastVisited == ret.visited[Len(ret.visited)]

ShapeEntriesFromInitGuess ==
    /\ \A k \in 3..NParams : ret.guess[k] = ret.init_guess[k]
    /\ ret.guess[2] = R(LastVisited)

----------------------------------------------------------------------------
(* Properties of the model stored by simulate.                             *)

Simulated == w.kind \in {"1D", "2D"} /\ ~w.fitted /\ w.raised = "none" /\ w.model # << >>

(* The design matrix of the stored vector: the unit-amplitude PSF of every *)
(* column.                                                                 *)
DesignProfile ==
    UnitProfile(from_poly_params_to_profile_params(w.poly_params, Nx, deg, TRUE,
                                                   bounds_hard))

DesignTimesAmplitudes ==
    LET P == DesignProfile
    IN  IF w.kind = "1D"
        THEN LET M == [x \in 1..w.Nx |-> Evaluate1D(w.Ny, P[x])]
             IN  [j \in 1..w.Ny |-> [x \in 1..w.Nx |->
                     RMul(w.amplitude_params[x], M[x][j])]]
        ELSE LET M == [x \in 1..w.Nx |-> Evaluate2D(w.Nx, w.Ny, P[x])]
             IN  [j \in 1..w.Ny |-> [i \in 1..w.Nx |->
                     RSum([x \in 1..w.Nx |-> RMul(w.amplitude_params[x], M[x][j][i])])]]

(* C22: after every simulate call of a chromatic fit workspace, in every   *)
(* prior mode, the stored model is the design matrix applied to the        *)
(* returned amplitudes, columns of negative amplitude included.            *)
C22_ModelIsDesignTimesAmplitudes ==
    Simulated => w.model = DesignTimesAmplitudes

----------------------------------------------------------------------------
(* Properties of SpectrogramFitWorkspace.                                  *)

IsSpectrogram == w.kind = "spectrogram"

WeightsFollowMask ==
    IsSpectrogram =>
        /\ Len(w.W) = Len(w.W_before_mask)
        /\ \A i \in 1..Len(w.W) :
              w.W[i] = IF Contains(w.mask, i - 1) THEN Zero ELSE w.W_before_mask[i]

OnlySetMaskChangesWeights ==
    (IsSpectrogram /\ w'.kind = "spectrogram") =>
        /\ w'.W_before_mask = w.W_before_mask
        /\ (w'.W # w.W \/ w'.mask # w.mask) => SetMask

(* C23: after any sequence of set_mask, simulate and jacobian calls, W is  *)
(* 0 on the pixels of the current mask and W_before_mask on every other    *)
(* pixel, and only set_mask changes W or mask.                             *)
C23_MaskNeverAccumulates == []WeightsFollowMask /\ [][OnlySetMaskChangesWeights]_vars

(* The first pixel masked, the second at its original weight, after a      *)
(* simulate and a jacobian call.                                           *)
C23_Witness ==
    /\ IsSpectrogram /\ ret.op = "epsilon" /\ w.called_with # None
    /\ w.mask = <<0>> /\ Len(w.W) = 2
    /\ w.W[1] = Zero /\ w.W[2] = w.W_before_mask[2] /\ w.W[2] # Zero /\ w.W_before_mask[1] # Zero

InJacobian == ret.op \in {"jacobian", "jacobian_done"}

(* The model simulate returns for the vector q.                            *)
ModelOf(q) == simulate_spectrogram(w, q).model

OutOfBounds(ip) ==
    LET moved == RAdd(ret.params[ip + 1], ret.supplied[ip + 1])
    IN  RLt(moved, w.bounds[ip + 1][1]) \/ RGt(moved, w.bounds[ip + 1][2])

ExpectedStep(ip) ==
    IF OutOfBounds(ip) THEN RNeg(ret.supplied[ip + 1]) ELSE ret.supplied[ip + 1]

FiniteDifference(ip) ==
    LET eps == ExpectedStep(ip)
        base == ModelOf(ret.params)
        moved == ModelOf([ret.params EXCEPT ![ip + 1] = RAdd(@, eps)])
    IN  [i \in 1..Len(base) |-> RDiv(RSub(moved[i], base[i]), eps)]

(* C24: every row of J computed so far, for a parameter that is not fixed, *)
(* is the one-sided difference of the model at the supplied step, the sign *)
(* of the step flipped exactly when the moved value leaves the bounds; the *)
(* other rows are zero, and on return the rows computed are those of the   *)
(* parameters that are not fixed.                                          *)
C24_JacobianRows ==
    InJacobian =>
        /\ \A ip \in 0..(Len(ret.params) - 1) :
              IF ip \in ret.columns
              THEN /\ ~ret.fixed_params[ip + 1]
                   /\ ret.epsilon[ip + 1] = ExpectedStep(ip)
                   /\ ret.J[ip + 1] = FiniteDifference(ip)
              ELSE /\ ret.epsilon[ip + 1] = ret.supplied[ip + 1]
                   /\ ret.J[ip + 1] = Const(Len(ret.model), Zero)
        /\ ret.op = "jacobian_done" =>
              ret.columns = {ip \in 0..(Len(ret.params) - 1) : ~ret.fixed_params[ip + 1]}

(* A returned Jacobian of a spectrogram of two pixels with a flipped and   *)
(* an unflipped step and a non-zero row.                                   *)
C24_Witness ==
    /\ ret.op = "jacobian_done" /\ Len(ret.model) = 2
    /\ \E ip \in ret.columns : OutOfBounds(ip) /\ ret.epsilon[ip + 1] # ret.supplied[ip + 1]
    /\ \E ip \in ret.columns : ~OutOfBounds(ip) /\ ret.J[ip + 1] # Const(2, Zero)
    /\ \E ip \in 0..(Len(ret.params) - 1) : ret.fixed_params[ip + 1]

InsideBounds(v, bound) == RGe(v, bound[1]) /\ RLe(v, bound[2])

(* C25: whenever params[ip] lies inside its bounds, the value at which the *)
(* column of ip evaluates the model lies inside the bounds as well.        *)
C25_PerturbedInsideBounds ==
    (ret.op = "jacobian" /\ ret.ip >= 0
        /\ InsideBounds(ret.params[ret.ip + 1], w.bounds[ret.ip + 1])) =>
            InsideBounds(ret.tmp_p[ret.ip + 1], w.bounds[ret.ip + 1])

(* C26: during the column of ip, fix_psf_cube is True exactly when ip is   *)
(* in fixed_psf_params and fix_atm_sim is False exactly when ip is in      *)
(* atm_params_indices; when jacobian returns, fix_psf_cube has its value   *)
(* at entry and fix_atm_sim is False.                                      *)
C26_CachingFlags ==
    /\ (ret.op = "jacobian" /\ ret.ip >= 0) =>
          /\ w.simulation.fix_psf_cube = (ret.ip \in {0, 1, 2, 3, 4, 5, 9})
          /\ (w.simulation.fix_atm_sim = FALSE) = (ret.ip \in {2, 3, 4, 5})
    /\ ret.op = "jacobian_done" =>
          /\ w.simulation.fix_psf_cube = ret.entry.fix_psf_cube
          /\ w.simulation.fix_atm_sim = FALSE

(* A call entered with fix_psf_cube set, whose last column cleared the     *)
(* flag, has returned.                                                     *)
C26_Witness ==
    /\ ret.op = "jacobian_done"
    /\ ret.entry.fix_psf_cube /\ w.simulation.fix_psf_cube
    /\ ret.ip \notin fixed_psf_params /\ ret.ip >= 0
    /\ ret.columns \cap atm_params_indices # {}

(* C28: cropping removes bgd_width rows at the top and at the bottom of    *)
(* the data and error arrays, which leaves Ny - 2*bgd_width rows, a        *)
(* vertical width of 2*PIXWIDTH_SIGNAL, for every bgd_width >= 0.          *)
C28_CroppedHeight ==
    IsSpectrogram =>
        /\ w.Ny = w.raw_Ny - 2 * bgd_width(w.config)
        /\ w.Ny = 2 * w.config.PIXWIDTH_SIGNAL
        /\ Len(w.data) = w.Ny * w.Nx /\ Len(w.err) = w.Ny * w.Nx

(* C30: simulate(params) stores params unchanged in p, the slot of         *)
(* angstrom_exponent_log10 included.                                       *)
C30_SimulateKeepsParams ==
    (IsSpectrogram /\ w.called_with # None) => w.p = w.called_with

----------------------------------------------------------------------------
(* Properties of the 'smooth' prior.                                       *)

SmoothedColumn == ret.op = "smooth" /\ ret.index >= 0

(* Columns the right and the left scan of ret.index go through, and the   *)
(* last one of each; column 0 has an empty left range and keeps its own    *)
(* value.                                                                  *)
RightWindow == ret.index..(RightEnd(ret.index, Len(ret.lstsq)) - 1)

LeftWindow == (LeftEnd(ret.index) + 1)..ret.index

LastRight == RightEnd(ret.index, Len(ret.lstsq)) - 1

LastLeft == IF LeftWindow = {} THEN ret.index ELSE LeftEnd(ret.index) + 1

NoneNonNegative(window) == \A x \in window : RLt(ret.lstsq[x + 1], Zero)

(* The pass by steps is the loop of simulate.                              *)
SmoothStepsAreSmooth ==
    ret.op = "smoothed" => ret.amplitude_params = Smooth(ret.lstsq)

(* The right side always reads least-squares values: the columns to the    *)
(* right of index are rewritten after it.                                  *)
RightSideIsOriginal ==
    SmoothedColumn /\ NoneNonNegative(RightWindow)
        => /\ ret.right = ret.lstsq[LastRight + 1]
           /\ RLt(ret.right, Zero)

(* C27: under the 'smooth' prior, when no amplitude of the window on one   *)
(* side of a negative column is non-negative, the value used for that side *)
(* is the least-squares amplitude of the last column examined on that      *)
(* side, and it is negative.                                               *)
C27_SideValueIsOriginalNegative ==
    SmoothedColumn =>
        /\ NoneNonNegative(RightWindow)
              => /\ ret.right = ret.lstsq[LastRight + 1]
                 /\ RLt(ret.right, Zero)
        /\ NoneNonNegative(LeftWindow)
              => /\ ret.left = ret.lstsq[LastLeft + 1]
                 /\ RLt(ret.left, Zero)

(* The left side reads a column already rewritten in the same pass.        *)
LeftSideRewritten ==
    /\ SmoothedColumn /\ NoneNonNegative(LeftWindow)
    /\ ret.left # ret.lstsq[LastLeft + 1]

LeftSideNonNegative ==
    /\ SmoothedColumn /\ NoneNonNegative(LeftWindow)
    /\ RGe(ret.left, Zero)

----------------------------------------------------------------------------
(* Properties of the background-crop shift.                                *)

(* shape_params with y_mean_0 lowered by bgd_width, once.                  *)
LoweredOnce(wk, shape_params) ==
    [shape_params EXCEPT ![wk.y_mean_0_index + 1] = RSub(@, R(wk.bgd_width))]

ShapeOf(q, wk) == Slice(q, wk.Nx, Len(q))

Simulated1D2D == w.kind \in {"1D", "2D"} /\ w.shape_params # << >>

(* C29: after any number of simulate(shape_params) calls, poly_params[Nx:] *)
(* of the workspace is the shape_params of the last call that returned     *)
(* with y_mean_0 lowered by bgd_width once, whatever the calls before it   *)
(* stored; after fit_chromatic_psf it is the shape_params of the last call *)
(* itself, in the workspace and in the PSF.                                *)
C29_ShiftNeverAccumulates ==
    Simulated1D2D =>
        IF w.fitted
        THEN /\ ShapeOf(w.poly_params, w) = w.shape_params
             /\ poly_params = w.poly_params
        ELSE ShapeOf(w.poly_params, w) = LoweredOnce(w, w.shape_params)

C29_Witness ==
    /\ w.kind \in {"1D", "2D"} /\ w.fitted /\ w.raised = "none"
    /\ w.bgd_width > 0
    /\ w.shape_params \in FittedShapes(w, deg, saturation)
    /\ LoweredOnce(w, w.shape_params) # w.shape_params

============================================================================
